---- MODULE Spec2Model ----
(***************************************************************************)
(* Model of the RFC 2435 media plane of rpi-webrtc-streamer               *)
(* (crate rust-mjpeg-rtp): the JPEG marker walker, the RTP/JPEG           *)
(* packetizer and its per-stream state.                                   *)
(*                                                                         *)
(* Bytes are naturals 0..255, buffers are sequences of bytes.  Rust       *)
(* indexes from 0, TLA+ from 1: At and Slice do the shift, so every       *)
(* position below is the 0-based position of the source.                  *)
(***************************************************************************)
EXTENDS Integers, Sequences, FiniteSets, TLC

\* ------------------------------------------------------------------------
\* Program constants
\* ------------------------------------------------------------------------
RTP_VERSION == 2
RTP_PAYLOAD_TYPE_JPEG == 26
RTP_HEADER_SIZE == 12
JPEG_HEADER_SIZE == 8
DEFAULT_MTU == 1400

SOI == 216
EOI == 217
SOS == 218
DQT == 219
SOF0 == 192

\* ------------------------------------------------------------------------
\* Byte helpers
\* ------------------------------------------------------------------------
Max(a, b) == IF a >= b THEN a ELSE b

Min(a, b) == IF a <= b THEN a ELSE b

\* data[i], i counted from 0
At(data, i) == data[i + 1]

\* &data[a..b], positions counted from 0, b exclusive
Slice(data, a, b) == SubSeq(data, a + 1, b)

\* u16::from_be_bytes([hi, lo])
from_be_bytes(hi, lo) == hi * 256 + lo

\* BufMut::put_u16 of a value already cast to u16
put_u16(v) == << (v \div 256) % 256, v % 256 >>

\* a u32 too wide for one model integer: its high and low 16 bits
U32(hi, lo) == [hi |-> hi, lo |-> lo]

\* put_u32 writing the low half first
put_u32_swapped(v) == put_u16(v.lo) \o put_u16(v.hi)

\* BufMut::put_u32
put_u32(v) == put_u16(v.hi) \o put_u16(v.lo)

RECURSIVE Concat(_)
\* the concatenation of a sequence of byte sequences
Concat(ss) == IF ss = << >> THEN << >> ELSE Head(ss) \o Concat(Tail(ss))

RECURSIVE SumLen(_)
\* info.q_tables.iter().map(|t| t.len()).sum()
SumLen(ss) == IF ss = << >> THEN 0 ELSE Len(Head(ss)) + SumLen(Tail(ss))

\* ------------------------------------------------------------------------
\* JPEG parser (rtp/jpeg_parser.rs)
\* ------------------------------------------------------------------------
NoInfo == [q_tables |-> << >>, width |-> 0, height |-> 0, jpeg_type |-> 0,
           scan_data |-> << >>]

ParseOk(info) == [kind |-> "Ok", err |-> "", info |-> info]

ParseErr(e) == [kind |-> "Err", err |-> e, info |-> NoInfo]

\* an index or slice out of range: the thread panics and nothing is returned
ParsePanic == [kind |-> "Panic", err |-> "", info |-> NoInfo]

\* the JpegInfo returned after the marker loop ends without an SOS
FallbackInfo(data, q_tables, width, height, jpeg_type) ==
    ParseOk([q_tables |-> q_tables,
             width |-> Max(width, 640),
             height |-> Max(height, 480),
             jpeg_type |-> jpeg_type,
             scan_data |-> data])

RECURSIVE FindEoi(_, _)
\* the inner loop of the SOS branch: first position >= scan_end holding FF D9,
\* or the position at which the loop gives up
FindEoi(data, scan_end) ==
    IF scan_end < Len(data) - 1
    THEN IF At(data, scan_end) = 255 /\ At(data, scan_end + 1) = EOI
         THEN scan_end
         ELSE FindEoi(data, scan_end + 1)
    ELSE scan_end

\* the SOS branch
ParseSos(data, pos, q_tables, width, height, jpeg_type) ==
    IF pos + 2 > Len(data)
    THEN ParseErr("MissingSos")
    ELSE LET length == from_be_bytes(At(data, pos), At(data, pos + 1))
             scan_start == pos + length
             scan_end == FindEoi(data, scan_start)
         IN  IF scan_end >= Len(data) - 1
             THEN ParseErr("MissingEoi")
             ELSE ParseOk([q_tables |-> q_tables,
                           width |-> width,
                           height |-> height,
                           jpeg_type |-> jpeg_type,
                           scan_data |-> Slice(data, scan_start, scan_end)])

\* the jpeg_type chosen by the SOF0 branch; -1 when data[pos + 9] is read
\* past the end
Sof0Type(data, pos, jpeg_type) ==
    IF pos + 9 <= Len(data)
    THEN IF At(data, pos + 7) = 3
         THEN IF pos + 9 >= Len(data)
              THEN -1
              ELSE LET y_h == (At(data, pos + 9) \div 16) % 16
                       y_v == At(data, pos + 9) % 16
                   IN  IF y_h = 2 /\ y_v = 2 THEN 0
                       ELSE IF y_h = 2 /\ y_v = 1 THEN 1
                       ELSE jpeg_type
         ELSE jpeg_type
    ELSE jpeg_type

RECURSIVE ParseLoop(_, _, _, _, _, _)
\* the marker loop, entered with the loop variables of the source
ParseLoop(data, pos, q_tables, width, height, jpeg_type) ==
    IF ~(pos < Len(data) - 1)
    THEN FallbackInfo(data, q_tables, width, height, jpeg_type)
    ELSE IF At(data, pos) # 255
    THEN ParseLoop(data, pos + 1, q_tables, width, height, jpeg_type)
    ELSE LET marker == At(data, pos + 1)
             p == pos + 2
             length == from_be_bytes(At(data, p), At(data, p + 1))
         IN  CASE marker = SOI ->
                    ParseLoop(data, p, q_tables, width, height, jpeg_type)
               [] marker = EOI ->
                    FallbackInfo(data, q_tables, width, height, jpeg_type)
               [] marker = SOS ->
                    ParseSos(data, p, q_tables, width, height, jpeg_type)
               [] marker = DQT ->
                    IF p + 2 > Len(data)
                    THEN FallbackInfo(data, q_tables, width, height, jpeg_type)
                    ELSE IF p + length > Len(data)
                    THEN FallbackInfo(data, q_tables, width, height, jpeg_type)
                    ELSE IF length < 2
                    THEN ParsePanic
                    ELSE ParseLoop(data, p + length,
                                   Append(q_tables, Slice(data, p + 2, p + length)),
                                   width, height, jpeg_type)
               [] marker = SOF0 ->
                    IF p + 2 > Len(data)
                    THEN FallbackInfo(data, q_tables, width, height, jpeg_type)
                    ELSE IF p + 7 > Len(data)
                    THEN FallbackInfo(data, q_tables, width, height, jpeg_type)
                    ELSE LET h == from_be_bytes(At(data, p + 3), At(data, p + 4))
                             w == from_be_bytes(At(data, p + 5), At(data, p + 6))
                             t == Sof0Type(data, p, jpeg_type)
                         IN  IF t = -1
                             THEN ParsePanic
                             ELSE ParseLoop(data, p + length, q_tables, w, h, t)
               [] OTHER ->
                    IF marker = 0 \/ marker = 255
                    THEN ParseLoop(data, p - 1, q_tables, width, height, jpeg_type)
                    ELSE IF p + 2 > Len(data)
                    THEN FallbackInfo(data, q_tables, width, height, jpeg_type)
                    ELSE ParseLoop(data, p + length, q_tables, width, height,
                                   jpeg_type)

\* parse_jpeg_for_rtp(data)
parse_jpeg_for_rtp(data) ==
    IF Len(data) < 4
    THEN ParseErr("TooShort")
    ELSE IF At(data, 0) # 255 \/ At(data, 1) # SOI
    THEN ParseErr("MissingSoi")
    ELSE ParseLoop(data, 2, << >>, 0, 0, 0)

\* jpeg_parser::validate_jpeg(data): "Ok" or the JpegParseError
parser_validate_jpeg(data) ==
    IF Len(data) < 4 THEN "TooShort"
    ELSE IF At(data, 0) # 255 \/ At(data, 1) # SOI THEN "MissingSoi"
    ELSE IF At(data, Len(data) - 2) # 255 \/ At(data, Len(data) - 1) # EOI
    THEN "MissingEoi"
    ELSE "Ok"

\* ------------------------------------------------------------------------
\* RTP packetizer (rtp/mod.rs)
\* ------------------------------------------------------------------------
\* Option<JpegInfo>
None == [some |-> FALSE, info |-> NoInfo]

Some(info) == [some |-> TRUE, info |-> info]

\* RtpPacketizer::new(ssrc, mtu): the immutable configuration fields
new(ssrc, mtu) ==
    LET m == IF mtu = 0 THEN DEFAULT_MTU ELSE mtu
        max_payload_size == Max(m - (RTP_HEADER_SIZE + JPEG_HEADER_SIZE), 0)
    IN  [payload_type |-> RTP_PAYLOAD_TYPE_JPEG,
         ssrc |-> ssrc,
         mtu |-> m,
         max_payload_size |-> Max(max_payload_size, 1)]

\* RtpPacketizer::validate_jpeg(data): "Ok" or the PacketizerError
validate_jpeg(data) ==
    IF Len(data) < 4 THEN "MissingSoiMarker"
    ELSE IF At(data, 0) # 255 \/ At(data, 1) # 216 THEN "MissingSoiMarker"
    ELSE IF At(data, Len(data) - 2) # 255 \/ At(data, Len(data) - 1) # 217
    THEN "MissingEoiMarker"
    ELSE "Ok"

\* extract_jpeg_payload shipping the whole JPEG also when the parse succeeds
extract_full_jpeg(data, cached) ==
    LET r == parse_jpeg_for_rtp(data)
    IN  CASE r.kind = "Ok" ->
               [kind |-> "Ok", err |-> "", payload |-> data, cached |-> Some(r.info)]
          [] r.kind = "Err" ->
               IF parser_validate_jpeg(data) # "Ok"
               THEN [kind |-> "Err", err |-> "InvalidJpeg", payload |-> << >>,
                     cached |-> cached]
               ELSE [kind |-> "Ok", err |-> "", payload |-> data, cached |-> None]
          [] OTHER ->
               [kind |-> "Panic", err |-> "", payload |-> << >>, cached |-> cached]

\* RtpPacketizer::extract_jpeg_payload(data): the payload and the new value of
\* cached_jpeg_info
extract_jpeg_payload(data, cached) ==
    LET r == parse_jpeg_for_rtp(data)
    IN  CASE r.kind = "Ok" ->
               [kind |-> "Ok", err |-> "", payload |-> r.info.scan_data,
                cached |-> Some(r.info)]
          [] r.kind = "Err" ->
               IF parser_validate_jpeg(data) # "Ok"
               THEN [kind |-> "Err", err |-> "InvalidJpeg", payload |-> << >>,
                     cached |-> cached]
               ELSE [kind |-> "Ok", err |-> "", payload |-> data, cached |-> None]
          [] OTHER ->
               [kind |-> "Panic", err |-> "", payload |-> << >>, cached |-> cached]

\* include_qtables of build_rtp_packet
include_qtables(cached, fragment_offset) == fragment_offset = 0 /\ cached.some

\* qtable_header_size of build_rtp_packet
qtable_header_size(cached, fragment_offset) ==
    IF include_qtables(cached, fragment_offset)
    THEN IF cached.info.q_tables # << >>
         THEN 4 + SumLen(cached.info.q_tables)
         ELSE 0
    ELSE 0

\* the Quantization Table Header written by build_rtp_packet (empty when none is)
qtable_header(cached, fragment_offset) ==
    IF include_qtables(cached, fragment_offset) /\ cached.info.q_tables # << >>
    THEN << 0, 0 >> \o put_u16(SumLen(cached.info.q_tables) % 65536)
         \o Concat(cached.info.q_tables)
    ELSE << >>

\* byte 1 of the RTP header
MarkerByte(p, marker) == IF marker THEN 128 + p.payload_type ELSE p.payload_type

\* RtpPacketizer::build_rtp_packet
build_rtp_packet(p, cached, seq_num, rtp_ts, fragment_offset, width, height, marker, payload) ==
    LET jpeg_type == IF cached.some THEN cached.info.jpeg_type ELSE 0
        q_value == IF include_qtables(cached, fragment_offset) THEN 128 ELSE 255
    IN  << RTP_VERSION * 64, MarkerByte(p, marker) >>
        \o put_u16(seq_num % 65536)
        \o put_u32(rtp_ts)
        \o put_u32(p.ssrc)
        \o << 0,
              (fragment_offset \div 65536) % 256,
              (fragment_offset \div 256) % 256,
              fragment_offset % 256,
              jpeg_type,
              q_value,
              (width \div 8) % 256,
              (height \div 8) % 256 >>
        \o qtable_header(cached, fragment_offset)
        \o payload

\* payload_size of the fragment loop
payload_size(p, jpeg_payload, offset) ==
    Min(Len(jpeg_payload) - offset, p.max_payload_size)

\* is_last with > for >=
is_last_strict(p, jpeg_payload, offset) ==
    offset + payload_size(p, jpeg_payload, offset) > Len(jpeg_payload)

\* is_last of the fragment loop
is_last(p, jpeg_payload, offset) ==
    offset + payload_size(p, jpeg_payload, offset) >= Len(jpeg_payload)

\* the fragment offset counting packets instead of bytes
AdvanceByOne(fragment_offset, n) == fragment_offset + 1

\* fragment_offset += payload_size as u32
AdvanceFragmentOffset(fragment_offset, n) == fragment_offset + n

\* the increment without the 16-bit mask
NextSeqUnmasked(seq_num) == seq_num + 1

\* seq_num.wrapping_add(1) & 0xFFFF; the u32 never wraps, every stored value
\* being below 2^16
NextSeq(seq_num) == (seq_num + 1) % 65536

RECURSIVE FragmentLoop(_, _, _, _, _, _, _, _, _, _)
\* the while loop of packetize_jpeg, entered with its loop variables; returns
\* the packets and the local seq_num at loop exit
FragmentLoop(p, cached, jpeg_payload, rtp_ts, width, height, offset, fragment_offset, seq_num, packets) ==
    IF offset < Len(jpeg_payload)
    THEN LET n == payload_size(p, jpeg_payload, offset)
             packet == build_rtp_packet(p, cached, seq_num, rtp_ts,
                                        fragment_offset, width, height,
                                        is_last(p, jpeg_payload, offset),
                                        Slice(jpeg_payload, offset, offset + n))
         IN  FragmentLoop(p, cached, jpeg_payload, rtp_ts, width, height,
                          offset + n, AdvanceFragmentOffset(fragment_offset, n),
                          NextSeq(seq_num),
                          Append(packets, packet))
    ELSE [packets |-> packets, seq_num |-> seq_num]

\* a return that counts the rejected frame before it leaves
early_return_counted(st, kind, err) ==
    [kind |-> kind, err |-> err, packets |-> << >>,
     st |-> [st EXCEPT !.frames_sent = @ + 1]]

\* the `return Err(..)` and the two `?` of packetize_jpeg: they leave before
\* the load of the sequence number, and nothing before them writes a counter
early_return(st, kind, err) ==
    [kind |-> kind, err |-> err, packets |-> << >>, st |-> st]

\* RtpPacketizer::packetize_jpeg: the result and the packetizer state after the
\* call, st being the state before it
packetize_jpeg(p, st, jpeg_data, width, height, rtp_ts) ==
    LET unchanged(kind, err) == early_return(st, kind, err)
        v == validate_jpeg(jpeg_data)
        x == extract_jpeg_payload(jpeg_data, st.cached_jpeg_info)
        f == FragmentLoop(p, x.cached, x.payload, rtp_ts, width, height,
                          0, 0, st.sequence_number, << >>)
    IN  IF jpeg_data = << >> THEN unchanged("Err", "EmptyData")
        ELSE IF v # "Ok" THEN unchanged("Err", v)
        ELSE IF x.kind = "Panic" THEN unchanged("Panic", "")
        ELSE IF x.kind = "Err" THEN unchanged("Err", x.err)
        ELSE [kind |-> "Ok", err |-> "", packets |-> f.packets,
              st |-> [sequence_number |-> f.seq_num,
                      packets_sent |-> st.packets_sent + Len(f.packets),
                      bytes_sent |-> st.bytes_sent + Len(jpeg_data),
                      frames_sent |-> st.frames_sent + 1,
                      cached_jpeg_info |-> x.cached]]

\* Config::validate_camera, the width and height checks
validate_camera(width, height) ==
    /\ ~(width = 0 \/ height = 0)
    /\ ~(width % 8 # 0 \/ height % 8 # 0)

\* ------------------------------------------------------------------------
\* Bounds and inputs
\* ------------------------------------------------------------------------
\* packetize_jpeg calls explored in one run
MaxCalls == 2

\* longest scan segment of the generated JPEG frames
MaxScan == 3

\* longest byte string of the unstructured inputs
MaxRawLen == 2

\* frames already packetized by the long-running stream of Configs
WarmupFrames == 32766

\* n scan bytes, all different and none of them FF
ScanBytes(n) == [i \in 1..n |-> 16 + i]

\* a well-formed DQT segment carrying the table bytes t
DqtSeg(t) == << 255, DQT >> \o put_u16(Len(t) + 2) \o t

\* a DQT marker whose length field runs past the end of the frame
DqtPastEnd == << 255, DQT, 0, 99 >>

\* an SOS marker with an empty header
SosSeg == << 255, SOS, 0, 2 >>

\* a baseline SOF0 segment: 16x8 pixels, nc components, sampling byte samp
Sof0Seg(nc, samp) == << 255, SOF0, 0, 11, 8, 0, 8, 0, 16, nc, 1, samp, 0 >>

Frame(body) == << 255, SOI >> \o body \o << 255, EOI >>

\* frames the encoder can deliver, by scan length n
FramesOfLen(n) ==
    { Frame(ScanBytes(n)),
      Frame(SosSeg \o ScanBytes(n)),
      Frame(DqtSeg(<< 0, 7 >>) \o SosSeg \o ScanBytes(n)),
      Frame(DqtSeg(<< 0, 7 >>) \o DqtSeg(<< 1, 9, 5 >>) \o SosSeg \o ScanBytes(n)) }

\* frames that start with SOI and end with EOI but hold a segment whose length
\* field runs past the end of the data
MalformedFrames ==
    { Frame(DqtPastEnd \o ScanBytes(2)),
      Frame(DqtSeg(<< 0, 7 >>) \o DqtPastEnd \o ScanBytes(2)),
      Frame(<< 255, SOS, 0, 99 >>) }

\* frames with one particular marker layout each, and inputs that are no frames
SpecialInputs ==
    { Frame(<< 255, DQT, 0, 0 >>),
      Frame(<< 255, DQT, 0, 1 >> \o SosSeg \o ScanBytes(2)),
      Frame(<< 255, 224, 0, 2, 255, 0 >> \o DqtSeg(<< 0, 7 >>) \o SosSeg
            \o ScanBytes(2)),
      Frame(SosSeg \o << 17, 255, EOI, 18 >>),
      Frame(Sof0Seg(3, 33) \o DqtSeg(<< 0, 7 >>) \o SosSeg \o ScanBytes(1)),
      Frame(Sof0Seg(3, 17) \o SosSeg \o ScanBytes(1)),
      << 0, 0, 1, 2, 255, EOI >>,
      << 255, SOI, 1, 2, 3, 4 >>,
      << 255, SOI, 0 >> }

RawAlphabet == { 255, SOI }

\* every byte string over RawAlphabet of length at most MaxRawLen
RawInputs == UNION { [1..n -> RawAlphabet] : n \in 0..MaxRawLen }

JpegInputs == UNION { FramesOfLen(n) : n \in 0..MaxScan } \cup MalformedFrames
              \cup SpecialInputs \cup RawInputs

\* frames also delivered by a camera running at 2592x1944
LargeFrames ==
    { Frame(ScanBytes(MaxScan)), Frame(DqtSeg(<< 0, 7 >>) \o SosSeg \o ScanBytes(2)) }

\* (jpeg, width, height, timestamp) of the calls explored
CallArgs ==
    { << j, 640, 480, U32(0, 1000) >> : j \in JpegInputs }
    \cup { << j, 2592, 1944, U32(65535, 65535) >> : j \in LargeFrames }

\* (ssrc, mtu, frames already sent) of the packetizers explored
Configs ==
    { [ssrc |-> U32(4660, 22136), mtu |-> 0, warm |-> 0],
      [ssrc |-> U32(43981, 61184), mtu |-> 22, warm |-> WarmupFrames],
      [ssrc |-> U32(0, 1), mtu |-> 21, warm |-> 0] }

\* ------------------------------------------------------------------------
\* State
\* ------------------------------------------------------------------------
VARIABLES
    packetizer,         \* payload_type, ssrc, mtu, max_payload_size
    sequence_number,
    timestamp,
    packets_sent,
    bytes_sent,
    frames_sent,
    cached_jpeg_info,
    lastCall,           \* arguments and result of the latest packetize_jpeg call
    calls,              \* packetize_jpeg calls made in this run
    thread,             \* per thread: its place in packetize_jpeg and its locals
    returned,           \* totals over the packetize_jpeg calls that returned Ok
    ops,                \* other public operations called in this run
    snapshots,          \* the latest two get_stats results, oldest first
    resetPending,       \* reset was called after the latest get_stats
    tsReturned,         \* calculate_timestamp results since the latest store
    tsBase,             \* the timestamp left by the latest store
    streamer,           \* the Streamer object: "new", "started", "dropping", "dropped"
    is_running,         \* the AtomicBool shared by the Streamer and its sender task
    stats,              \* the Streamer's frames_sent, frames_dropped, send_errors
    frame_queue,        \* frames buffered in the Streamer's mpsc channel
    frame_rx,           \* the channel's Receiver still exists
    task,               \* the sender task: its place in run() and its locals
    socket,             \* datagrams send_to accepted, in order
    handled,            \* the frames the sender task dequeued, with their outcome
    lastSend,           \* the latest send_frame_nonblocking call
    capture,            \* the capture's frame channel and counters
    forwarder,          \* the frame loop of run_camera
    main,               \* main: its place around ctrl_c and what was stopped
    built,              \* the latest configuration or object constructed
    distributor,        \* the FrameDistributor: capacity, counters, latest publish
    shared,             \* the broadcast channel: tail and slots
    receivers,          \* per subscriber: its FrameReceiver
    parsed,             \* a byte sequence and what parsing it returned
    manager             \* the SessionManager: its counter and its connections

\* the threads sharing one Arc<RtpPacketizer>
NumThreads == 2

Threads == 1..NumThreads

threadVars == << thread, returned >>

opsVars == << ops, snapshots, resetPending, tsReturned, tsBase >>

streamerVars == << streamer, is_running, stats, frame_queue, frame_rx, task, socket,
                  handled, lastSend, capture, forwarder >>

distVars == << distributor, shared, receivers >>

lateVars == << parsed, manager >>

otherVars == << main, built, distVars, lateVars >>

\* what no step of packetize_jpeg touches
outerVars == << opsVars, streamerVars, otherVars >>

vars == << packetizer, sequence_number, timestamp, packets_sent, bytes_sent,
           frames_sent, cached_jpeg_info, lastCall, calls, threadVars, outerVars >>

\* the mutable fields as packetize_jpeg reads them
State == [sequence_number |-> sequence_number,
          packets_sent |-> packets_sent,
          bytes_sent |-> bytes_sent,
          frames_sent |-> frames_sent,
          cached_jpeg_info |-> cached_jpeg_info]

\* the mutable fields right after RtpPacketizer::new
Fresh == [sequence_number |-> 0, packets_sent |-> 0, bytes_sent |-> 0,
          frames_sent |-> 0, cached_jpeg_info |-> None]

\* the smallest frame packetize_jpeg accepts
MinimalFrame == Frame(<< >>)

\* the mutable fields after n calls packetize_jpeg(MinimalFrame, 640, 480, 0) on a
\* new packetizer: every such call emits the same number of packets
Warm(p, n) ==
    LET r == packetize_jpeg(p, Fresh, MinimalFrame, 640, 480, U32(0, 0))
        k == Len(r.packets)
    IN  IF n = 0 THEN Fresh
        ELSE [sequence_number |-> (n * k) % 65536,
              packets_sent |-> n * k,
              bytes_sent |-> n * Len(MinimalFrame),
              frames_sent |-> n,
              cached_jpeg_info |-> r.st.cached_jpeg_info]

NoCall == [jpeg |-> << >>, width |-> 0, height |-> 0, rtp_ts |-> U32(0, 0),
           seq_before |-> 0, prev_seq |-> -1, kind |-> "None", err |-> "",
           packets |-> << >>, last_seq |-> -1]

\* a thread outside packetize_jpeg, with the packets of its latest call
Idle == [pc |-> "idle", jpeg |-> << >>, payload |-> << >>, seq_num |-> 0,
         fragment_offset |-> 0, offset |-> 0, packets |-> << >>]

NoReturns == [calls |-> 0, bytes |-> 0, packets |-> 0, overlapped |-> FALSE]

\* no thread has called the packetizer
NoThreads ==
    /\ thread = [t \in Threads |-> Idle]
    /\ returned = NoReturns

\* no other operation has been called
NoOps ==
    /\ ops = 0
    /\ snapshots = << >>
    /\ resetPending = FALSE
    /\ tsReturned = << >>
    /\ tsBase = U32(0, 0)

\* a sender task that was not spawned
NoTask == [pc |-> "none", frame_count |-> 0, id |-> 0, running |-> FALSE,
           rtp_ts |-> U32(0, 0), packets |-> << >>, next |-> 0, errors |-> 0]

NoSend == [calls |-> 0, result |-> "None", msg |-> [id |-> 0, jpeg |-> << >>],
           running |-> FALSE, queue_before |-> << >>, queue_after |-> << >>,
           stats_before |-> [frames_sent |-> 0, frames_dropped |-> 0, send_errors |-> 0],
           stats_after |-> [frames_sent |-> 0, frames_dropped |-> 0, send_errors |-> 0]]

\* no Streamer and no Capture were built
NoStreamer ==
    /\ streamer = "none"
    /\ is_running = FALSE
    /\ stats = [frames_sent |-> 0, frames_dropped |-> 0, send_errors |-> 0]
    /\ frame_queue = << >>
    /\ frame_rx = FALSE
    /\ task = NoTask
    /\ socket = << >>
    /\ handled = << >>
    /\ lastSend = NoSend
    /\ capture = [queue |-> << >>, frames_captured |-> 0, frames_dropped |-> 0,
                  samples |-> 0, is_running |-> FALSE, pc |-> "none",
                  pipeline |-> "None", senders |-> 0, sent |-> << >>,
                  received |-> << >>]
    /\ forwarder = [pc |-> "none", id |-> 0, jpeg |-> << >>]

\* main did not spawn a camera
NoMain == main = [pc |-> "none", result |-> "None", stops |-> << >>]

\* nothing was constructed from a configuration
NoBuilt == built = [what |-> "none", config |-> << >>, result |-> "None"]

\* no FrameDistributor was created
NoDist ==
    /\ distributor = [state |-> "none"]
    /\ shared = [state |-> "none"]
    /\ receivers = << >>

\* nothing but the packetizer exists
\* nothing was parsed on its own
NoParsed == parsed = [pc |-> "none"]

\* no SessionManager was created
NoManager == manager = [state |-> "none"]

NoLate == NoParsed /\ NoManager

NoOuter == NoOps /\ NoStreamer /\ NoMain /\ NoBuilt /\ NoDist /\ NoLate

Init ==
    \E c \in Configs :
        LET st == Warm(new(c.ssrc, c.mtu), c.warm)
        IN  /\ packetizer = new(c.ssrc, c.mtu)
            /\ sequence_number = st.sequence_number
            /\ timestamp = U32(0, 0)
            /\ packets_sent = st.packets_sent
            /\ bytes_sent = st.bytes_sent
            /\ frames_sent = st.frames_sent
            /\ cached_jpeg_info = st.cached_jpeg_info
            /\ lastCall = [NoCall EXCEPT
                             !.last_seq = IF c.warm = 0 THEN -1
                                          ELSE (st.sequence_number + 65535) % 65536]
            /\ calls = 0
            /\ NoThreads
            /\ NoOuter

\* bytes 2..3 of a packet
SeqOf(pkt) == from_be_bytes(pkt[3], pkt[4])

\* one packetize_jpeg(jpeg, width, height, rtp_ts) call by the single producer
PacketizeJpeg(jpeg, width, height, rtp_ts) ==
    LET r == packetize_jpeg(packetizer, State, jpeg, width, height, rtp_ts)
    IN  /\ calls < MaxCalls
        /\ calls' = calls + 1
        /\ sequence_number' = r.st.sequence_number
        /\ packets_sent' = r.st.packets_sent
        /\ bytes_sent' = r.st.bytes_sent
        /\ frames_sent' = r.st.frames_sent
        /\ cached_jpeg_info' = r.st.cached_jpeg_info
        /\ lastCall' = [jpeg |-> jpeg, width |-> width, height |-> height,
                        rtp_ts |-> rtp_ts,
                        seq_before |-> sequence_number,
                        prev_seq |-> lastCall.last_seq,
                        kind |-> r.kind, err |-> r.err, packets |-> r.packets,
                        last_seq |-> IF r.packets = << >> THEN lastCall.last_seq
                                     ELSE SeqOf(r.packets[Len(r.packets)])]
        /\ UNCHANGED << packetizer, timestamp, threadVars, outerVars >>

Next ==
    \E a \in CallArgs : PacketizeJpeg(a[1], a[2], a[3], a[4])

Spec == Init /\ [][Next]_vars

\* ------------------------------------------------------------------------
\* Reading a packet as a receiver does
\* ------------------------------------------------------------------------
\* the packets returned by the latest call
Packets == lastCall.packets

Returned == lastCall.kind = "Ok"

\* bit 7 of byte 1
MarkerBit(pkt) == At(pkt, 1) \div 128

\* bytes 13..15
FragmentOffsetOf(pkt) == At(pkt, 13) * 65536 + At(pkt, 14) * 256 + At(pkt, 15)

\* a big-endian u32 starting at byte i
U32At(pkt, i) == U32(from_be_bytes(At(pkt, i), At(pkt, i + 1)),
                     from_be_bytes(At(pkt, i + 2), At(pkt, i + 3)))

\* the quantization tables of the frame of the latest successful call
ShippedTables == IF cached_jpeg_info.some THEN cached_jpeg_info.info.q_tables ELSE << >>

\* length of the Quantization Table Header in packet i of the latest call
HeaderLen(i) == IF i = 1 /\ ShippedTables # << >> THEN 4 + SumLen(ShippedTables) ELSE 0

\* the scan-payload bytes carried by packet i of the latest call
PayloadOf(i) ==
    SubSeq(Packets[i], RTP_HEADER_SIZE + JPEG_HEADER_SIZE + HeaderLen(i) + 1,
           Len(Packets[i]))

\* packet i is followed, right after the JPEG header, by a Quantization Table
\* Header with non-empty tables
HasTableHeader(i) ==
    /\ ShippedTables # << >>
    /\ SumLen(ShippedTables) > 0
    /\ Len(Packets[i]) >= 24 + SumLen(ShippedTables)
    /\ SubSeq(Packets[i], 21, 24 + SumLen(ShippedTables))
         = << 0, 0 >> \o put_u16(SumLen(ShippedTables)) \o Concat(ShippedTables)

BeginsWithSoi(jpeg) == Len(jpeg) >= 2 /\ jpeg[1] = 255 /\ jpeg[2] = 216

EndsWithEoi(jpeg) == Len(jpeg) >= 2 /\ jpeg[Len(jpeg) - 1] = 255 /\ jpeg[Len(jpeg)] = 217

\* ------------------------------------------------------------------------
\* Claims
\* ------------------------------------------------------------------------
\* C1: when packetize_jpeg returns K >= 1 packets, the marker bit is set on the
\* K-th packet and on no other.
MarkerOnlyOnLast ==
    Returned =>
        \A i \in 1..Len(Packets) : (MarkerBit(Packets[i]) = 1) <=> (i = Len(Packets))

\* a frame of three or more packets was returned
MarkerWitness == Returned /\ Len(Packets) >= 3

\* C2: sequence numbers of the packets of successive successful calls go up by 1
\* modulo 2^16, within a frame and from the last packet of one frame to the
\* first of the next, and get_sequence_number() is the next one to be used.
SequenceDense ==
    (Returned /\ Packets # << >>) =>
        /\ lastCall.prev_seq # -1 =>
               SeqOf(Packets[1]) = (lastCall.prev_seq + 1) % 65536
        /\ \A i \in 1..(Len(Packets) - 1) :
               SeqOf(Packets[i + 1]) = (SeqOf(Packets[i]) + 1) % 65536
        /\ sequence_number = (SeqOf(Packets[Len(Packets)]) + 1) % 65536

\* 65535 was followed by 0 inside one frame, the frame following an earlier one
SequenceWitness ==
    /\ Returned
    /\ lastCall.prev_seq # -1
    /\ \E i \in 1..(Len(Packets) - 1) :
           SeqOf(Packets[i]) = 65535 /\ SeqOf(Packets[i + 1]) = 0

\* C3: every returned packet is at most MTU bytes long.
MtuObeyed ==
    Returned => \A i \in 1..Len(Packets) : Len(Packets[i]) <= packetizer.mtu

\* C4: the first packet has fragment offset 0 and each later packet the offset
\* of its predecessor plus the scan bytes the predecessor carries.
FragmentOffsetsContinuous ==
    (Returned /\ Packets # << >>) =>
        /\ FragmentOffsetOf(Packets[1]) = 0
        /\ \A i \in 1..(Len(Packets) - 1) :
               FragmentOffsetOf(Packets[i + 1])
                 = FragmentOffsetOf(Packets[i]) + Len(PayloadOf(i))

\* a frame with shipped tables was split into two or more packets, the first
\* carrying more than one scan byte
FragmentOffsetWitness ==
    /\ Returned
    /\ Len(Packets) >= 2
    /\ HeaderLen(1) > 0
    /\ Len(PayloadOf(1)) >= 2

\* C5: the payloads of the returned packets, concatenated in order, are the
\* scan data parse_jpeg_for_rtp returns for the same JPEG.
PayloadIsScanData ==
    (Returned /\ parse_jpeg_for_rtp(lastCall.jpeg).kind = "Ok") =>
        Concat([i \in 1..Len(Packets) |-> PayloadOf(i)])
          = parse_jpeg_for_rtp(lastCall.jpeg).info.scan_data

\* a frame whose scan data is a proper part of the JPEG went out in two or more
\* packets
PayloadWitness ==
    /\ Returned
    /\ Len(Packets) >= 2
    /\ parse_jpeg_for_rtp(lastCall.jpeg).kind = "Ok"
    /\ parse_jpeg_for_rtp(lastCall.jpeg).info.scan_data # lastCall.jpeg

\* C6: every returned packet has V=2, P=0, X=0, CC=0, payload type 26, the
\* call's timestamp in bytes 4..7 and the packetizer's SSRC in bytes 8..11.
RtpHeaderFields ==
    Returned =>
        \A i \in 1..Len(Packets) :
            /\ At(Packets[i], 0) = 128
            /\ At(Packets[i], 1) % 128 = 26
            /\ U32At(Packets[i], 4) = lastCall.rtp_ts
            /\ U32At(Packets[i], 8) = packetizer.ssrc

\* a frame of two or more packets with a timestamp and an SSRC whose bytes differ
RtpHeaderWitness ==
    /\ Returned
    /\ Len(Packets) >= 2
    /\ lastCall.rtp_ts = U32(0, 1000)
    /\ packetizer.ssrc = U32(43981, 61184)

\* C7: for a geometry validation accepts, byte 18 is width / 8 and byte 19 is
\* height / 8.
DimensionBytes ==
    (Returned /\ validate_camera(lastCall.width, lastCall.height)) =>
        \A i \in 1..Len(Packets) :
            /\ At(Packets[i], 18) = lastCall.width \div 8
            /\ At(Packets[i], 19) = lastCall.height \div 8

\* C8: empty input gives EmptyData, a non-empty input not beginning with FF D8
\* gives the missing-SOI error, an input beginning with FF D8 but not ending
\* with FF D9 gives the missing-EOI error; no packets in each case.
ErrorMatchesDefect ==
    LET j == lastCall.jpeg
        fails(e) == lastCall.kind = "Err" /\ lastCall.err = e /\ Packets = << >>
    IN  lastCall.kind # "None" =>
            /\ j = << >> => fails("EmptyData")
            /\ (j # << >> /\ ~BeginsWithSoi(j)) => fails("MissingSoiMarker")
            /\ (BeginsWithSoi(j) /\ ~EndsWithEoi(j)) => fails("MissingEoiMarker")

\* C9: a frame with SOI and EOI but malformed markers still yields packets, all
\* with Q = 255 and no Quantization Table Header, whose payloads make up the
\* whole JPEG.
DegradedParse ==
    (lastCall.kind # "None" /\ lastCall.jpeg \in MalformedFrames) =>
        /\ Returned
        /\ Packets # << >>
        /\ \A i \in 1..Len(Packets) : At(Packets[i], 17) = 255
        /\ Concat([i \in 1..Len(Packets) |->
                     SubSeq(Packets[i], RTP_HEADER_SIZE + JPEG_HEADER_SIZE + 1,
                            Len(Packets[i]))])
             = lastCall.jpeg

\* C10: Q is 128 exactly on a first packet that a Quantization Table Header with
\* non-empty tables follows; every other packet has Q = 255 and no such header.
QMatchesTables ==
    Returned =>
        \A i \in 1..Len(Packets) :
            /\ (At(Packets[i], 17) = 128) <=> (i = 1 /\ HasTableHeader(i))
            /\ At(Packets[i], 17) # 128 =>
                   At(Packets[i], 17) = 255 /\ HeaderLen(i) = 0

\* ------------------------------------------------------------------------
\* Packetizers built for an MTU that leaves no room for payload
\* ------------------------------------------------------------------------
\* MTUs for which mtu - RTP_HEADER_SIZE - JPEG_HEADER_SIZE is zero or negative
TinyMtus == { 1, RTP_HEADER_SIZE + JPEG_HEADER_SIZE - 1,
              RTP_HEADER_SIZE + JPEG_HEADER_SIZE }

\* the state right after RtpPacketizer::new(ssrc, mtu) for such an MTU
InitTinyMtu ==
    \E mtu \in TinyMtus :
        /\ packetizer = new(U32(0, 1), mtu)
        /\ sequence_number = Fresh.sequence_number
        /\ timestamp = U32(0, 0)
        /\ packets_sent = Fresh.packets_sent
        /\ bytes_sent = Fresh.bytes_sent
        /\ frames_sent = Fresh.frames_sent
        /\ cached_jpeg_info = Fresh.cached_jpeg_info
        /\ lastCall = NoCall
        /\ calls = 0
        /\ NoThreads
        /\ NoOuter

SpecTinyMtu == InitTinyMtu /\ [][Next]_vars

\* C11: a packetizer whose MTU leaves zero or negative room for payload never
\* returns packets (its construction failed).
TinyMtuEmitsNothing ==
    packetizer.mtu - RTP_HEADER_SIZE - JPEG_HEADER_SIZE <= 0 =>
        ~(Returned /\ Packets # << >>)

\* ------------------------------------------------------------------------
\* Several threads calling packetize_jpeg on one packetizer
\* ------------------------------------------------------------------------
\* each step below is one access to the shared state (an atomic load, store or
\* fetch_add, or one critical section of the cached_jpeg_info mutex) together
\* with the thread-local computation that precedes it

\* frames the threads packetize: two scan lengths, one with a table, one
\* rejected
ThreadFrames ==
    { Frame(SosSeg \o ScanBytes(MaxScan)),
      Frame(DqtSeg(<< 0, 7 >>) \o SosSeg \o ScanBytes(1)),
      << 255, SOI >> }

\* the timestamp argument of thread t
ThreadTs(t) == U32(0, 1000 * t)

\* AtomicU64::fetch_add storing the operand
fetch_add_store(cur, val) == val

\* AtomicU64::fetch_add(val): the new value of the atomic
fetch_add(cur, val) == cur + val

InitThreads ==
    /\ packetizer = new(U32(0, 1), RTP_HEADER_SIZE + JPEG_HEADER_SIZE + 2)
    /\ sequence_number = Fresh.sequence_number
    /\ timestamp = U32(0, 0)
    /\ packets_sent = Fresh.packets_sent
    /\ bytes_sent = Fresh.bytes_sent
    /\ frames_sent = Fresh.frames_sent
    /\ cached_jpeg_info = Fresh.cached_jpeg_info
    /\ lastCall = NoCall
    /\ calls = 0
    /\ NoThreads
    /\ NoOuter

\* packetize_jpeg up to the end of extract_jpeg_payload: the checks, the parse
\* and the write of cached_jpeg_info under its lock; an Err returns at once
Enter(t, jpeg) ==
    LET v == validate_jpeg(jpeg)
        x == extract_jpeg_payload(jpeg, cached_jpeg_info)
        ok == jpeg # << >> /\ v = "Ok" /\ x.kind = "Ok"
    IN  /\ thread[t].pc = "idle"
        /\ calls < MaxCalls
        /\ (jpeg # << >> /\ v = "Ok") => x.kind # "Panic"
        /\ calls' = calls + 1
        /\ cached_jpeg_info' = IF ok THEN x.cached ELSE cached_jpeg_info
        /\ thread' = [thread EXCEPT ![t] =
                        IF ok
                        THEN [Idle EXCEPT !.pc = "load", !.jpeg = jpeg,
                                          !.payload = x.payload]
                        ELSE [Idle EXCEPT !.jpeg = jpeg]]
        /\ returned' = [returned EXCEPT !.overlapped =
                          @ \/ (ok /\ \E u \in Threads \ {t} : thread[u].pc # "idle")]
        /\ UNCHANGED << packetizer, sequence_number, timestamp, packets_sent,
                        bytes_sent, frames_sent, lastCall, outerVars >>

\* let mut seq_num = self.sequence_number.load(Relaxed)
LoadSeq(t) ==
    /\ thread[t].pc = "load"
    /\ thread' = [thread EXCEPT ![t].seq_num = sequence_number,
                                ![t].pc = IF thread[t].payload = << >>
                                          THEN "store" ELSE "build"]
    /\ UNCHANGED << packetizer, sequence_number, timestamp, packets_sent,
                    bytes_sent, frames_sent, cached_jpeg_info, lastCall, calls,
                    returned, outerVars >>

\* one iteration of the while loop: build_rtp_packet reads cached_jpeg_info
\* under its lock
BuildPacket(t) ==
    LET th == thread[t]
        n == payload_size(packetizer, th.payload, th.offset)
        packet == build_rtp_packet(packetizer, cached_jpeg_info, th.seq_num,
                                   ThreadTs(t), th.fragment_offset, 640, 480,
                                   is_last(packetizer, th.payload, th.offset),
                                   Slice(th.payload, th.offset, th.offset + n))
    IN  /\ th.pc = "build"
        /\ thread' = [thread EXCEPT ![t] =
                        [th EXCEPT !.packets = Append(@, packet),
                                   !.seq_num = NextSeq(@),
                                   !.fragment_offset = AdvanceFragmentOffset(@, n),
                                   !.offset = @ + n,
                                   !.pc = IF th.offset + n < Len(th.payload)
                                          THEN "build" ELSE "store"]]
        /\ UNCHANGED << packetizer, sequence_number, timestamp, packets_sent,
                        bytes_sent, frames_sent, cached_jpeg_info, lastCall, calls,
                        returned, outerVars >>

\* self.sequence_number.store(seq_num, Relaxed)
StoreSeq(t) ==
    /\ thread[t].pc = "store"
    /\ sequence_number' = thread[t].seq_num
    /\ thread' = [thread EXCEPT ![t].pc = "packets_sent"]
    /\ UNCHANGED << packetizer, timestamp, packets_sent, bytes_sent, frames_sent,
                    cached_jpeg_info, lastCall, calls, returned, outerVars >>

\* self.packets_sent.fetch_add(packets.len())
AddPackets(t) ==
    /\ thread[t].pc = "packets_sent"
    /\ packets_sent' = fetch_add(packets_sent, Len(thread[t].packets))
    /\ thread' = [thread EXCEPT ![t].pc = "bytes_sent"]
    /\ UNCHANGED << packetizer, sequence_number, timestamp, bytes_sent, frames_sent,
                    cached_jpeg_info, lastCall, calls, returned, outerVars >>

\* self.bytes_sent.fetch_add(jpeg_data.len())
AddBytes(t) ==
    /\ thread[t].pc = "bytes_sent"
    /\ bytes_sent' = fetch_add(bytes_sent, Len(thread[t].jpeg))
    /\ thread' = [thread EXCEPT ![t].pc = "frames_sent"]
    /\ UNCHANGED << packetizer, sequence_number, timestamp, packets_sent, frames_sent,
                    cached_jpeg_info, lastCall, calls, returned, outerVars >>

\* self.frames_sent.fetch_add(1), then Ok(packets)
AddFrames(t) ==
    /\ thread[t].pc = "frames_sent"
    /\ frames_sent' = fetch_add(frames_sent, 1)
    /\ thread' = [thread EXCEPT ![t].pc = "idle"]
    /\ returned' = [returned EXCEPT !.calls = @ + 1,
                                    !.bytes = @ + Len(thread[t].jpeg),
                                    !.packets = @ + Len(thread[t].packets)]
    /\ UNCHANGED << packetizer, sequence_number, timestamp, packets_sent, bytes_sent,
                    cached_jpeg_info, lastCall, calls, outerVars >>

NextThreads ==
    \E t \in Threads :
        \/ \E jpeg \in ThreadFrames : Enter(t, jpeg)
        \/ LoadSeq(t)
        \/ BuildPacket(t)
        \/ StoreSeq(t)
        \/ AddPackets(t)
        \/ AddBytes(t)
        \/ AddFrames(t)

SpecThreads == InitThreads /\ [][NextThreads]_vars

\* every call has returned
AllReturned == \A t \in Threads : thread[t].pc = "idle"

\* C12: once every packetize_jpeg call has returned, whether the calls ran one
\* after another or at the same time, frames_sent is the number of successful
\* calls, bytes_sent the sum of their input lengths and packets_sent the number
\* of packets they returned.
StatsMatchCalls ==
    AllReturned =>
        /\ frames_sent = returned.calls
        /\ bytes_sent = returned.bytes
        /\ packets_sent = returned.packets

\* two calls that ran at the same time have both returned
StatsWitness ==
    /\ AllReturned
    /\ returned.overlapped
    /\ returned.calls >= 2
    /\ returned.packets >= 3

\* ------------------------------------------------------------------------
\* The other public operations of the packetizer, called one after another
\* ------------------------------------------------------------------------
RTP_CLOCK_RATE == 90000

\* operations besides packetize_jpeg explored in one run
MaxOps == 4

\* wrapping_add of a u32 and a number below 2^31 - 2^16
U32Add(v, n) ==
    LET lo == v.lo + n
    IN  U32((v.hi + lo \div 65536) % 65536, lo % 65536)

\* wrapping_sub of two u32
U32Sub(a, b) ==
    LET lo == a.lo - b.lo
        borrow == IF lo < 0 THEN 1 ELSE 0
    IN  U32((a.hi - b.hi - borrow + 65536) % 65536, (lo + 65536) % 65536)

\* a number below 2^31 as a u32
ToU32(n) == U32(n \div 65536, n % 65536)

\* frame rates: validate_camera admits 1..120
FpsValues == { 1, 30 }

\* arguments of set_timestamp: one a few frames before the u32 wraps
TimestampValues == { U32(65535, 65000) }

\* frames packetized between the other operations
OpsFrames == { Frame(SosSeg \o ScanBytes(MaxScan)), Frame(SosSeg \o ScanBytes(1)) }

\* let increment = RTP_CLOCK_RATE / fps, added twice
increment_doubled(fps) == 2 * (RTP_CLOCK_RATE \div fps)

\* let increment = RTP_CLOCK_RATE / fps
increment(fps) == RTP_CLOCK_RATE \div fps

\* get_stats with bytes_sent read from the timestamp
get_stats_mixed ==
    [packets_sent |-> packets_sent, bytes_sent |-> timestamp.lo,
     frames_sent |-> frames_sent, current_seq |-> sequence_number,
     current_ts |-> timestamp]

\* RtpPacketizer::get_stats: the PacketizerStats returned
get_stats ==
    [packets_sent |-> packets_sent, bytes_sent |-> bytes_sent,
     frames_sent |-> frames_sent, current_seq |-> sequence_number,
     current_ts |-> timestamp]

InitOps ==
    /\ packetizer = new(U32(0, 1), RTP_HEADER_SIZE + JPEG_HEADER_SIZE + 2)
    /\ sequence_number = Fresh.sequence_number
    /\ timestamp = U32(0, 0)
    /\ packets_sent = Fresh.packets_sent
    /\ bytes_sent = Fresh.bytes_sent
    /\ frames_sent = Fresh.frames_sent
    /\ cached_jpeg_info = Fresh.cached_jpeg_info
    /\ lastCall = NoCall
    /\ calls = 0
    /\ NoThreads
    /\ NoOuter

\* calculate_timestamp(fps): one fetch_add on the timestamp, returning the
\* value it replaced
CalculateTimestamp(fps) ==
    /\ ops < MaxOps
    /\ ops' = ops + 1
    /\ timestamp' = U32Add(timestamp, increment(fps))
    /\ tsReturned' = Append(tsReturned, [fps |-> fps, value |-> timestamp])
    /\ UNCHANGED << packetizer, sequence_number, packets_sent, bytes_sent,
                    frames_sent, cached_jpeg_info, lastCall, calls, threadVars,
                    snapshots, resetPending, tsBase >>
    /\ UNCHANGED << streamerVars, otherVars >>

\* set_timestamp(ts)
SetTimestamp(ts) ==
    /\ ops < MaxOps
    /\ ops' = ops + 1
    /\ timestamp' = ts
    /\ tsReturned' = << >>
    /\ tsBase' = ts
    /\ UNCHANGED << packetizer, sequence_number, packets_sent, bytes_sent,
                    frames_sent, cached_jpeg_info, lastCall, calls, threadVars,
                    snapshots, resetPending >>
    /\ UNCHANGED << streamerVars, otherVars >>

\* reset()
Reset ==
    /\ ops < MaxOps
    /\ ops' = ops + 1
    /\ sequence_number' = 0
    /\ timestamp' = U32(0, 0)
    /\ packets_sent' = 0
    /\ bytes_sent' = 0
    /\ frames_sent' = 0
    /\ resetPending' = TRUE
    /\ tsReturned' = << >>
    /\ tsBase' = U32(0, 0)
    /\ UNCHANGED << packetizer, cached_jpeg_info, lastCall, calls, threadVars,
                    snapshots >>
    /\ UNCHANGED << streamerVars, otherVars >>

\* get_stats()
GetStats ==
    /\ ops < MaxOps
    /\ ops' = ops + 1
    /\ snapshots' = (IF snapshots = << >> THEN << >> ELSE << snapshots[Len(snapshots)] >>)
                    \o << [stats |-> get_stats, after_reset |-> resetPending] >>
    /\ resetPending' = FALSE
    /\ UNCHANGED << packetizer, sequence_number, timestamp, packets_sent, bytes_sent,
                    frames_sent, cached_jpeg_info, lastCall, calls, threadVars,
                    tsReturned, tsBase >>
    /\ UNCHANGED << streamerVars, otherVars >>

NextOps ==
    \/ \E jpeg \in OpsFrames : PacketizeJpeg(jpeg, 640, 480, timestamp)
    \/ \E fps \in FpsValues : CalculateTimestamp(fps)
    \/ \E ts \in TimestampValues : SetTimestamp(ts)
    \/ Reset
    \/ GetStats

SpecOps == InitOps /\ [][NextOps]_vars

\* the three counters of snapshot b are at least those of snapshot a
NotSmaller(a, b) ==
    /\ b.frames_sent >= a.frames_sent
    /\ b.packets_sent >= a.packets_sent
    /\ b.bytes_sent >= a.bytes_sent

\* C13: whatever public operations run between two get_stats snapshots,
\* frames_sent, packets_sent and bytes_sent of the later snapshot are not
\* smaller than those of the earlier one.
SnapshotsNeverDecrease ==
    Len(snapshots) = 2 => NotSmaller(snapshots[1].stats, snapshots[2].stats)

\* C13, amended: the same when reset was not called between the two snapshots.
SnapshotsNeverDecreaseWithoutReset ==
    (Len(snapshots) = 2 /\ ~snapshots[2].after_reset) =>
        NotSmaller(snapshots[1].stats, snapshots[2].stats)

\* two snapshots with a successful packetize_jpeg and no reset between them
SnapshotsWitness ==
    /\ Len(snapshots) = 2
    /\ ~snapshots[2].after_reset
    /\ snapshots[2].stats.frames_sent > snapshots[1].stats.frames_sent
    /\ snapshots[2].stats.current_ts # snapshots[1].stats.current_ts

\* C14: calculate_timestamp(fps) returns the current timestamp and advances it
\* by 90000 / fps modulo 2^32: the first call after a store returns the stored
\* value, each later call returns the previous result plus the previous
\* increment, and no two calls receive the same value.
TimestampAdvances ==
    LET n == Len(tsReturned)
        step(i) == ToU32(90000 \div tsReturned[i].fps)
    IN  /\ n > 0 => tsReturned[1].value = tsBase
        /\ \A i \in 1..(n - 1) :
               U32Sub(tsReturned[i + 1].value, tsReturned[i].value) = step(i)
        /\ n > 0 => U32Sub(timestamp, tsReturned[n].value) = step(n)
        /\ \A i, j \in 1..n : i # j => tsReturned[i].value # tsReturned[j].value

\* two calls with different frame rates, the timestamp wrapping between them
TimestampWitness ==
    /\ Len(tsReturned) >= 2
    /\ tsReturned[1].fps # tsReturned[2].fps
    /\ tsReturned[1].value.hi = 65535
    /\ tsReturned[2].value.hi = 0

\* ------------------------------------------------------------------------
\* UDP streamer (streamer/mod.rs) fed by run_camera (main.rs)
\* ------------------------------------------------------------------------
\* mpsc::channel(10) of Streamer::start
FrameChannelCapacity == 10

\* mpsc::channel(5) of Capture::start
CaptureChannelCapacity == 5

\* samples the encoder delivers in one run
MaxFrames == 3

\* send_frame_nonblocking calls in one run
MaxSends == 11

\* samples the appsink delivers in one run
MaxSamples == 7

\* frames a long-running stream has sent: at 30 fps the frame-based
\* timestamp wraps the u32 one frame later
WarmStreamFrames == 1431655

\* the StreamerConfig explored
StreamConfig == [ssrc |-> U32(0, 1), mtu |-> RTP_HEADER_SIZE + JPEG_HEADER_SIZE + 2,
                 fps |-> 30, width |-> 640, height |-> 480]

\* frames the encoder delivers: one packetized into two packets, one with an
\* empty scan, one the packetizer rejects, one with a DQT segment of length 0
GoodFrame == Frame(SosSeg \o ScanBytes(MaxScan))

EmptyScanFrame == Frame(SosSeg)

RejectedFrame == << 255, SOI, 1, 2, 3, 4 >>

DqtZeroFrame == Frame(<< 255, DQT, 0, 0 >>)

StreamFrames == { GoodFrame, EmptyScanFrame, RejectedFrame, DqtZeroFrame }

\* u32::wrapping_mul(x, n) for n below 2^23, byte by byte from the low end
wrapping_mul(x, n) ==
    LET p0 == (x.lo % 256) * n
        p1 == (x.lo \div 256) * n + p0 \div 256
        p2 == (x.hi % 256) * n + p1 \div 256
        p3 == (x.hi \div 256) * n + p2 \div 256
    IN  U32((p3 % 256) * 256 + (p2 % 256), (p1 % 256) * 256 + (p0 % 256))

\* the frame count multiplied by the frame rate
next_frame_based_rate(fps, frame_count) == wrapping_mul(ToU32(frame_count), fps)

\* TimestampGenerator::next_frame_based(frame_count) of a generator built by
\* TimestampGenerator::new(fps); frame_count stays below 2^31
next_frame_based(fps, frame_count) ==
    wrapping_mul(ToU32(frame_count), RTP_CLOCK_RATE \div fps)

\* the loop never left on a cleared flag
never_breaks(running) == FALSE

\* if !self.is_running.load() { break; }
breaks(running) == ~running

\* the newest message of the channel
newest_message(queue) == queue[Len(queue)]

\* the message Receiver::recv returns: the oldest
next_message(queue) == Head(queue)

\* the sender task waiting in recv, frame_count frames into its loop
TaskAt(frame_count) == [NoTask EXCEPT !.pc = "recv", !.frame_count = frame_count]

\* run_camera after Capture::start and Streamer::new; or a stream that has
\* sent WarmStreamFrames frames of MinimalFrame
InitStreamer ==
    \E warm \in { 0, WarmStreamFrames } :
        LET p == new(StreamConfig.ssrc, StreamConfig.mtu)
            st == Warm(p, warm)
        IN  /\ packetizer = p
            /\ sequence_number = st.sequence_number
            /\ timestamp = U32(0, 0)
            /\ packets_sent = st.packets_sent
            /\ bytes_sent = st.bytes_sent
            /\ frames_sent = st.frames_sent
            /\ cached_jpeg_info = st.cached_jpeg_info
            /\ lastCall = NoCall
            /\ calls = 0
            /\ NoThreads
            /\ NoOps
            /\ streamer = IF warm = 0 THEN "new" ELSE "started"
            /\ is_running = (warm # 0)
            /\ stats = [frames_sent |-> warm, frames_dropped |-> 0, send_errors |-> 0]
            /\ frame_queue = << >>
            /\ frame_rx = (warm # 0)
            /\ task = IF warm = 0 THEN NoTask ELSE TaskAt(warm)
            /\ socket = << >>
            /\ handled = << >>
            /\ lastSend = NoSend
            /\ capture = [queue |-> << >>, frames_captured |-> warm,
                          frames_dropped |-> 0, samples |-> 0, is_running |-> TRUE,
                          pc |-> "started", pipeline |-> "Playing", senders |-> 2,
                          sent |-> << >>, received |-> << >>]
            /\ main = [pc |-> "waiting", result |-> "None", stops |-> << >>]
            /\ NoBuilt
            /\ NoLate
            /\ NoDist
            /\ forwarder = [pc |-> IF warm = 0 THEN "start" ELSE "recv",
                            id |-> 0, jpeg |-> << >>]

\* what the streamer and run_camera leave alone
callerVars == << lastCall, calls, threadVars, opsVars, otherVars >>

packetizerState == << sequence_number, packets_sent, bytes_sent, frames_sent,
                      cached_jpeg_info >>

\* Streamer::start, as run_camera calls it before its loop: a new channel, the
\* sender task spawned, the flag set
Start ==
    /\ streamer = "new"
    /\ ~is_running
    /\ streamer' = "started"
    /\ frame_queue' = << >>
    /\ frame_rx' = TRUE
    /\ task' = TaskAt(0)
    /\ is_running' = TRUE
    /\ forwarder' = [forwarder EXCEPT !.pc = IF @ = "start" THEN "recv" ELSE @]
    /\ UNCHANGED << packetizer, timestamp, packetizerState, callerVars, stats,
                    socket, handled, lastSend, capture >>

\* a channel that takes every message
try_send_unbounded(queue, msg) == [ok |-> TRUE, queue |-> Append(queue, msg)]

\* frame_tx.try_send on the channel of 5 whose Receiver the frame loop holds:
\* the message is queued unless 5 are waiting
try_send(queue, msg) ==
    IF Len(queue) < CaptureChannelCapacity
    THEN [ok |-> TRUE, queue |-> Append(queue, msg)]
    ELSE [ok |-> FALSE, queue |-> queue]

\* the new_sample callback of the appsink, called by the playing pipeline:
\* nothing while the capture is not running, else try_send into the capture
\* channel
NewSample(jpeg) ==
    /\ capture.samples < MaxSamples
    /\ capture.pipeline = "Playing"
    /\ capture' =
         LET id == capture.samples + 1
             r == try_send(capture.queue, [id |-> id, jpeg |-> jpeg])
         IN  IF ~capture.is_running
             THEN [capture EXCEPT !.samples = @ + 1]
             ELSE IF r.ok
             THEN [capture EXCEPT !.samples = @ + 1,
                                  !.queue = r.queue,
                                  !.sent = Append(@, id),
                                  !.frames_captured = @ + 1]
             ELSE [capture EXCEPT !.samples = @ + 1, !.frames_dropped = @ + 1]
    /\ UNCHANGED << packetizer, timestamp, packetizerState, callerVars, streamer,
                    is_running, stats, frame_queue, frame_rx, task, socket,
                    handled, lastSend, forwarder >>

\* run_camera: frame_rx.recv().await returns the oldest captured frame
ForwardRecv ==
    /\ forwarder.pc = "recv"
    /\ capture.queue # << >>
    /\ forwarder' = [pc |-> "send", id |-> next_message(capture.queue).id,
                     jpeg |-> next_message(capture.queue).jpeg]
    /\ capture' = [capture EXCEPT !.queue = Tail(@),
                                  !.received = Append(@, next_message(capture.queue).id)]
    /\ UNCHANGED << packetizer, timestamp, packetizerState, callerVars, streamer,
                    is_running, stats, frame_queue, frame_rx, task, socket,
                    handled, lastSend >>

\* run_camera: streamer.send_frame(frame).await; it waits while the channel is
\* full, and on NotRunning or ChannelSend the loop goes on with the next frame
ForwardSend ==
    /\ forwarder.pc = "send"
    /\ (is_running /\ frame_rx) => Len(frame_queue) < FrameChannelCapacity
    /\ frame_queue' = IF is_running /\ frame_rx
                      THEN Append(frame_queue, [id |-> forwarder.id,
                                                jpeg |-> forwarder.jpeg])
                      ELSE frame_queue
    /\ forwarder' = [pc |-> "recv", id |-> 0, jpeg |-> << >>]
    /\ UNCHANGED << packetizer, timestamp, packetizerState, callerVars, streamer,
                    is_running, stats, frame_rx, task, socket, handled, lastSend,
                    capture >>

\* Streamer::send_frame_nonblocking(jpeg)
SendFrameNonblocking(jpeg) ==
    LET id == lastSend.calls + 1
        msg == [id |-> id, jpeg |-> jpeg]
        sent == frame_rx /\ Len(frame_queue) < FrameChannelCapacity
        result == IF ~is_running THEN "NotRunning"
                  ELSE IF sent THEN "Ok" ELSE "ChannelSend"
    IN  /\ streamer \in { "new", "started" }
        /\ lastSend.calls < MaxSends
        /\ frame_queue' = IF result = "Ok" THEN Append(frame_queue, msg)
                          ELSE frame_queue
        /\ stats' = IF result = "ChannelSend"
                    THEN [stats EXCEPT !.frames_dropped = @ + 1]
                    ELSE stats
        /\ lastSend' = [calls |-> id, result |-> result, msg |-> msg,
                        running |-> is_running,
                        queue_before |-> frame_queue, queue_after |-> frame_queue',
                        stats_before |-> stats, stats_after |-> stats']
        /\ UNCHANGED << packetizer, timestamp, packetizerState, callerVars, streamer,
                        is_running, frame_rx, task, socket, handled, capture,
                        forwarder >>

\* what the sender task records about a frame it is done with
Outcome(msg, running, rtp_ts, outcome) ==
    [id |-> msg.id, running |-> running, rtp_ts |-> rtp_ts, outcome |-> outcome]

\* StreamerTask::run from frame_rx.recv().await to the next await: the flag
\* check, the timestamp, packetize_jpeg and, when there is nothing to send,
\* the counting; on a closed empty channel or a cleared flag the loop is left,
\* the flag is cleared and the Receiver dropped with the task
TaskRecv ==
    LET msg == next_message(frame_queue)
        rtp_ts == next_frame_based(StreamConfig.fps, task.frame_count)
        leave == /\ task' = [task EXCEPT !.pc = "stopped"]
                 /\ is_running' = FALSE
                 /\ frame_rx' = FALSE
                 /\ frame_queue' = << >>
                 /\ UNCHANGED << packetizerState, stats >>
    IN  /\ task.pc = "recv"
        /\ frame_queue = << >> => streamer = "dropped"
        /\ UNCHANGED << packetizer, timestamp, callerVars, streamer, socket,
                        lastSend, capture, forwarder >>
        /\ IF frame_queue = << >>
           THEN leave /\ UNCHANGED handled
           ELSE IF breaks(is_running)
           THEN leave /\ handled' = Append(handled, Outcome(msg, is_running, rtp_ts, "discarded"))
           ELSE \E r \in { packetize_jpeg(packetizer, State, msg.jpeg, StreamConfig.width,
                                          StreamConfig.height, rtp_ts) } :
                IF r.kind = "Panic"
                THEN /\ task' = [task EXCEPT !.pc = "panicked"]
                     /\ frame_rx' = FALSE
                     /\ frame_queue' = << >>
                     /\ handled' = Append(handled, Outcome(msg, is_running, rtp_ts, "panic"))
                     /\ UNCHANGED << packetizerState, stats, is_running >>
                ELSE /\ frame_queue' = Tail(frame_queue)
                     /\ sequence_number' = r.st.sequence_number
                     /\ packets_sent' = r.st.packets_sent
                     /\ bytes_sent' = r.st.bytes_sent
                     /\ frames_sent' = r.st.frames_sent
                     /\ cached_jpeg_info' = r.st.cached_jpeg_info
                     /\ UNCHANGED << is_running, frame_rx >>
                     /\ IF r.kind = "Err"
                        THEN /\ stats' = [stats EXCEPT !.send_errors = @ + 1]
                             /\ handled' = Append(handled,
                                                  Outcome(msg, is_running, rtp_ts, "rejected"))
                             /\ UNCHANGED task
                        ELSE IF r.packets = << >>
                        THEN /\ stats' = [stats EXCEPT !.frames_sent = @ + 1]
                             /\ handled' = Append(handled,
                                                  Outcome(msg, is_running, rtp_ts, "sent"))
                             /\ task' = [task EXCEPT !.frame_count = @ + 1]
                        ELSE /\ task' = [task EXCEPT !.pc = "send", !.id = msg.id,
                                                     !.running = is_running,
                                                     !.rtp_ts = rtp_ts,
                                                     !.packets = r.packets,
                                                     !.next = 1, !.errors = 0]
                             /\ UNCHANGED << stats, handled >>

\* one socket.send_to(packet, dest_addr).await of the for loop, succeeding or
\* not; after the last one the frame is counted and frame_count advanced
TaskSendTo(ok) ==
    LET errors == task.errors + (IF ok THEN 0 ELSE 1)
    IN  /\ task.pc = "send"
        /\ socket' = IF ok
                     THEN Append(socket, [id |-> task.id,
                                          packet |-> task.packets[task.next]])
                     ELSE socket
        /\ IF task.next < Len(task.packets)
           THEN /\ task' = [task EXCEPT !.next = @ + 1, !.errors = errors]
                /\ UNCHANGED << stats, handled >>
           ELSE /\ task' = TaskAt(task.frame_count + 1)
                /\ stats' = IF errors > 0
                            THEN [stats EXCEPT !.send_errors = @ + 1]
                            ELSE [stats EXCEPT !.frames_sent = @ + 1]
                /\ handled' = Append(handled,
                                     Outcome(task, task.running, task.rtp_ts,
                                             IF errors > 0 THEN "send_error"
                                             ELSE "sent"))
        /\ UNCHANGED << packetizer, timestamp, packetizerState, callerVars, streamer,
                        is_running, frame_queue, frame_rx, lastSend, capture,
                        forwarder >>

\* impl Drop for Streamer: the body of drop; the owner's loop ends with it
DropStore ==
    /\ streamer = "started"
    /\ streamer' = "dropping"
    /\ is_running' = FALSE
    /\ forwarder' = [pc |-> "done", id |-> 0, jpeg |-> << >>]
    /\ UNCHANGED << packetizer, timestamp, packetizerState, callerVars, stats,
                    frame_queue, frame_rx, task, socket, handled, lastSend,
                    capture >>

\* the fields of the Streamer dropped after the body: frame_tx is gone and the
\* channel closed
DropFields ==
    /\ streamer = "dropping"
    /\ streamer' = "dropped"
    /\ UNCHANGED << packetizer, timestamp, packetizerState, callerVars, is_running,
                    stats, frame_queue, frame_rx, task, socket, handled, lastSend,
                    capture, forwarder >>

NextStreamer ==
    \/ Start
    \/ \E jpeg \in StreamFrames : capture.samples < MaxFrames /\ NewSample(jpeg)
    \/ ForwardRecv
    \/ ForwardSend
    \/ TaskRecv
    \/ \E ok \in BOOLEAN : TaskSendTo(ok)
    \/ DropStore
    \/ DropFields

SpecStreamer == InitStreamer /\ [][NextStreamer]_vars

\* the RTP timestamp field of a datagram
TimestampOf(pkt) == U32At(pkt, 4)

\* 90000 / fps of the stream, as a u32
FrameStep == ToU32(90000 \div StreamConfig.fps)

\* the frames for which packetize_jpeg returned Ok, in the order handled
Packetized == SelectSeq(handled, LAMBDA h : h.outcome \in { "sent", "send_error" })

\* C15: the RTP timestamps of consecutive frames with packets on the socket
\* differ by exactly 90000 / fps modulo 2^32, whatever happened to the frames
\* dequeued between them.
EmittedTimestampsStep ==
    \A i \in 1..(Len(socket) - 1) :
        socket[i].id # socket[i + 1].id =>
            U32Sub(TimestampOf(socket[i + 1].packet), TimestampOf(socket[i].packet))
              = FrameStep

\* C15, amended: the timestamps of consecutive frames for which packetize_jpeg
\* returned Ok differ by exactly 90000 / fps modulo 2^32, whether their sends
\* succeeded or not; counted from 0, the n-th such frame of a stream has
\* timestamp n * (90000 / fps), and every datagram carries the timestamp of
\* its frame.
PacketizedTimestampsStep ==
    /\ \A i \in 1..(Len(Packetized) - 1) :
           U32Sub(Packetized[i + 1].rtp_ts, Packetized[i].rtp_ts) = FrameStep
    /\ task.frame_count <= MaxFrames =>
           \A i \in 1..Len(Packetized) :
               Packetized[i].rtp_ts = ToU32((i - 1) * (90000 \div StreamConfig.fps))
    /\ \A k \in 1..Len(socket) :
           \/ \E i \in 1..Len(Packetized) :
                  /\ Packetized[i].id = socket[k].id
                  /\ Packetized[i].rtp_ts = TimestampOf(socket[k].packet)
           \/ /\ task.pc = "send"
              /\ task.id = socket[k].id
              /\ task.rtp_ts = TimestampOf(socket[k].packet)

\* a sent frame, a rejected frame, then a frame with a failed send whose
\* timestamp has wrapped
TimestampsWitness ==
    /\ Len(handled) = 3
    /\ handled[1].outcome = "sent"
    /\ handled[2].outcome = "rejected"
    /\ handled[3].outcome = "send_error"
    /\ handled[1].rtp_ts.hi = 65535
    /\ handled[3].rtp_ts.hi = 0
    /\ \E k \in 1..Len(socket) : socket[k].id = handled[3].id

\* C16: every frame the sender task dequeues while running adds exactly 1 to
\* exactly one counter: to frames_sent when it was packetized and every send
\* succeeded, to send_errors otherwise.
FrameCountedOnce ==
    [][(Len(handled') = Len(handled) + 1 /\ handled'[Len(handled')].running) =>
           IF handled'[Len(handled')].outcome = "sent"
           THEN stats' = [stats EXCEPT !.frames_sent = @ + 1]
           ELSE stats' = [stats EXCEPT !.send_errors = @ + 1]]_vars

\* frames offered to a sender watched until it ends
MaxSenderFrames == 2

SenderFrames == { GoodFrame, RejectedFrame, DqtZeroFrame }

\* a Streamer started by its owner, fed through send_frame_nonblocking and
\* dropped at some moment
NextSender ==
    \/ Start
    \/ \E jpeg \in SenderFrames : lastSend.calls < MaxSenderFrames /\ SendFrameNonblocking(jpeg)
    \/ TaskRecv
    \/ \E ok \in BOOLEAN : TaskSendTo(ok)
    \/ DropStore
    \/ DropFields

\* the runtime runs a task that can take a step, a datagram send completes,
\* and a destructor runs to its end
SpecSenderFair ==
    /\ InitStreamer
    /\ [][NextSender]_vars
    /\ WF_vars(TaskRecv)
    /\ WF_vars(\E ok \in BOOLEAN : TaskSendTo(ok))
    /\ WF_vars(DropFields)

\* frame id waits in the sender's channel
Queued(id) == \E k \in 1..Len(frame_queue) : frame_queue[k].id = id

\* the sender task dequeued frame id and is done with it
Handled(id) == \E i \in 1..Len(handled) : handled[i].id = id

\* C17: a frame accepted into the sender's queue is eventually dequeued and
\* processed unless the streamer stops running, whatever happened to the
\* frames before it.
AcceptedFramesProcessed ==
    \A id \in 1..MaxSenderFrames :
        (Queued(id) /\ streamer = "started") ~> (Handled(id) \/ streamer # "started")

\* the Streamer was dropped: the flag cleared, then the channel closed
Dropping == streamer \in { "dropping", "dropped" }

\* the sender task has ended
TaskEnded == task.pc \in { "stopped", "panicked" }

\* C19: a frame the sender task dequeues once the flag is false is neither
\* packetized nor sent; when the task has stopped no frame is left queued; and
\* once the Streamer is dropped the task eventually ends with is_running false.
SenderStopsAfterDrop ==
    /\ [](\A i \in 1..Len(handled) :
              ~handled[i].running => handled[i].outcome = "discarded")
    /\ [](\A k \in 1..Len(socket) :
              \/ \E i \in 1..Len(handled) :
                     handled[i].id = socket[k].id /\ handled[i].running
              \/ task.pc = "send" /\ task.id = socket[k].id /\ task.running)
    /\ [](task.pc = "stopped" => frame_queue = << >> /\ ~is_running)
    /\ Dropping ~> (TaskEnded /\ ~is_running)

\* a stream that sent a frame, was dropped with a frame queued, and whose task
\* discarded that frame and stopped
SenderStopsWitness ==
    /\ streamer = "dropped"
    /\ task.pc = "stopped"
    /\ ~is_running
    /\ \E i \in 1..Len(handled) : handled[i].outcome = "sent"
    /\ handled[Len(handled)].outcome = "discarded"
    /\ socket # << >>

\* the ids of a sequence of frames or of records about frames, in order
IdsOf(seq) == [i \in 1..Len(seq) |-> seq[i].id]

\* ids grow strictly along the sequence
Increasing(ids) == \A i \in 1..(Len(ids) - 1) : ids[i] < ids[i + 1]

\* the frames on their way from the appsink to the sender task, oldest first:
\* the sender's channel, the frame run_camera holds, the capture channel
InFlight ==
    IdsOf(frame_queue)
      \o (IF forwarder.pc = "send" THEN << forwarder.id >> ELSE << >>)
      \o IdsOf(capture.queue)

\* C20: order is kept from the capture callback to the socket: the frames in
\* flight and the frames the sender task is done with are in capture order,
\* the datagrams on the socket are grouped by frame in capture order, and
\* within one frame they are in increasing fragment-offset order.
OrderPreserved ==
    /\ Increasing(InFlight)
    /\ Increasing(IdsOf(handled))
    /\ \A i \in 1..Len(handled) : \A j \in 1..Len(InFlight) :
           handled[i].id < InFlight[j]
    /\ \A k \in 1..(Len(socket) - 1) :
           /\ socket[k].id <= socket[k + 1].id
           /\ socket[k].id = socket[k + 1].id =>
                  FragmentOffsetOf(socket[k].packet)
                    < FragmentOffsetOf(socket[k + 1].packet)

\* two frames of two datagrams each went out while a third frame was queued
OrderWitness ==
    /\ Len(socket) = 4
    /\ socket[1].id = socket[2].id
    /\ socket[2].id < socket[3].id
    /\ socket[3].id = socket[4].id
    /\ Len(InFlight) > 0

\* frames offered through send_frame_nonblocking: one the parser accepts
\* without scan data and one whose DQT segment has length 0
NonblockingFrames == { EmptyScanFrame, DqtZeroFrame }

\* a producer that calls send_frame_nonblocking faster than the sender task
\* takes frames
NextNonblocking ==
    \/ Start
    \/ \E jpeg \in NonblockingFrames : SendFrameNonblocking(jpeg)
    \/ TaskRecv
    \/ DropStore
    \/ DropFields

SpecNonblocking == InitStreamer /\ [][NextNonblocking]_vars

\* C18: the queue never holds more than 10 frames, and a call of
\* send_frame_nonblocking made while is_running is true returns Ok and
\* appends the frame without touching a counter when fewer than 10 frames are
\* queued, and otherwise returns ChannelSend, adds 1 to frames_dropped and
\* leaves the queue as it was.
NonblockingContract ==
    /\ Len(frame_queue) <= FrameChannelCapacity
    /\ (lastSend.calls > 0 /\ lastSend.running) =>
           IF Len(lastSend.queue_before) < FrameChannelCapacity
           THEN /\ lastSend.result = "Ok"
                /\ lastSend.queue_after = Append(lastSend.queue_before, lastSend.msg)
                /\ lastSend.stats_after = lastSend.stats_before
           ELSE /\ lastSend.result = "ChannelSend"
                /\ lastSend.queue_after = lastSend.queue_before
                /\ lastSend.stats_after =
                     [lastSend.stats_before EXCEPT !.frames_dropped = @ + 1]

\* ------------------------------------------------------------------------
\* The capture's frame queue
\* ------------------------------------------------------------------------
\* a camera whose frames the forwarding loop takes slower than they arrive
NextCapture ==
    \/ Start
    \/ NewSample(EmptyScanFrame)
    \/ ForwardRecv
    \/ ForwardSend
    \/ TaskRecv

SpecCapture == InitStreamer /\ [][NextCapture]_vars

\* the callback ran on a running capture whose queue holds 5 frames
OverflowStep ==
    /\ capture'.samples = capture.samples + 1
    /\ capture.is_running
    /\ Len(capture.queue) = CaptureChannelCapacity

\* C21: the capture queue never holds more than 5 frames, and a frame that
\* arrives while it holds 5 replaces the oldest queued frame and adds 1 to
\* frames_dropped.
DropOldestOnOverflow ==
    [][/\ Len(capture'.queue) <= CaptureChannelCapacity
       /\ OverflowStep =>
              /\ capture'.frames_dropped = capture.frames_dropped + 1
              /\ Len(capture'.queue) = CaptureChannelCapacity
              /\ \A i \in 1..(CaptureChannelCapacity - 1) :
                     capture'.queue[i] = capture.queue[i + 1]
              /\ capture'.queue[CaptureChannelCapacity].id = capture'.samples]_vars

\* ------------------------------------------------------------------------
\* Shutdown: main returns after ctrl_c and the runtime drops the tasks
\* ------------------------------------------------------------------------
\* what main, run_camera and the sender task leave alone
mainVars == << packetizer, timestamp, lastCall, calls, threadVars, opsVars, built,
              distVars, lateVars >>

\* tokio::signal::ctrl_c().await completes while a camera streams
Signal ==
    /\ main.pc = "waiting"
    /\ streamer = "started"
    /\ main' = [main EXCEPT !.pc = "signalled"]
    /\ UNCHANGED << mainVars, packetizerState, streamerVars >>

\* main logs and returns Ok(()); the runtime is shut down after it
MainReturn ==
    /\ main.pc = "signalled"
    /\ main' = [main EXCEPT !.pc = "returned", !.result = "Ok"]
    /\ UNCHANGED << mainVars, packetizerState, streamerVars >>

\* the runtime drops the run_camera future at its await: its locals go in
\* reverse order of declaration, the Streamer first (Drop::drop clears the flag)
CancelCamera ==
    /\ main.pc = "returned"
    /\ forwarder.pc \in { "recv", "send" }
    /\ streamer = "started"
    /\ forwarder' = [pc |-> "cancelled", id |-> 0, jpeg |-> << >>]
    /\ streamer' = "dropping"
    /\ is_running' = FALSE
    /\ main' = [main EXCEPT !.stops = Append(@, [who |-> "sender", ok |-> TRUE])]
    /\ UNCHANGED << mainVars, packetizerState, stats, frame_queue, frame_rx, task,
                    socket, handled, lastSend, capture >>

\* Drop::drop of the Capture and the drop of its fields: the flag is cleared;
\* the pipeline, when stop has not taken it, is set to Null and the result
\* discarded; frame_tx goes, and when the pipeline is in Null the appsink is
\* freed with the callback that owns the other Sender
drop_capture(c, ok) ==
    LET pipeline == IF c.pc = "started" /\ ok THEN "Null" ELSE c.pipeline
    IN  [c EXCEPT !.is_running = FALSE,
                  !.pc = "dropped",
                  !.pipeline = pipeline,
                  !.senders = IF pipeline = "Null" THEN 0 ELSE 1]

\* the capture's Receiver, then the Capture are dropped: Drop::drop clears the
\* flag and sets the pipeline to Null, discarding the result
DropCapture(ok) ==
    /\ forwarder.pc = "cancelled"
    /\ streamer = "dropped"
    /\ capture.is_running
    /\ capture' = [drop_capture(capture, ok) EXCEPT !.queue = << >>]
    /\ main' = [main EXCEPT !.stops = Append(@, [who |-> "capture", ok |-> ok])]
    /\ UNCHANGED << mainVars, packetizerState, streamer, is_running, stats,
                    frame_queue, frame_rx, task, socket, handled, lastSend,
                    forwarder >>

\* the runtime drops the sender task at its await
CancelSender ==
    /\ main.pc = "returned"
    /\ task.pc \in { "recv", "send" }
    /\ task' = [task EXCEPT !.pc = "cancelled"]
    /\ frame_rx' = FALSE
    /\ frame_queue' = << >>
    /\ UNCHANGED << mainVars, packetizerState, main, streamer, is_running, stats,
                    socket, handled, lastSend, capture, forwarder >>

NextSupervisor ==
    \/ Start
    \/ capture.samples < MaxSenderFrames /\ NewSample(GoodFrame)
    \/ ForwardRecv
    \/ ForwardSend
    \/ TaskRecv
    \/ \E ok \in BOOLEAN : TaskSendTo(ok)
    \/ Signal
    \/ MainReturn
    \/ CancelCamera
    \/ DropFields
    \/ \E ok \in BOOLEAN : DropCapture(ok)
    \/ CancelSender

\* main runs on after the signal, the runtime shutdown reaches every task, and
\* a value being dropped is dropped to the end
SpecSupervisor ==
    /\ InitStreamer
    /\ [][NextSupervisor]_vars
    /\ WF_vars(MainReturn)
    /\ WF_vars(CancelCamera)
    /\ WF_vars(DropFields)
    /\ WF_vars(\E ok \in BOOLEAN : DropCapture(ok))
    /\ WF_vars(CancelSender)

\* the frame loop of run_camera has ended
ForwarderEnded == forwarder.pc \in { "done", "cancelled" }

\* the sender task has ended or was dropped
SenderEnded == task.pc \in { "stopped", "panicked", "cancelled" }

\* C22: after the shutdown signal the sender is stopped first and the capture
\* second, the frame loop and the sender task eventually end, and a stop that
\* failed makes main return an error.
ShutdownStopsInOrder ==
    /\ [](\A i \in 1..Len(main.stops) :
              main.stops[i].who = << "sender", "capture" >>[i])
    /\ [](\A i \in 1..Len(main.stops) : ~main.stops[i].ok => main.result = "Err")
    /\ (main.pc = "signalled") ~> (ForwarderEnded /\ SenderEnded /\ Len(main.stops) = 2)

\* ------------------------------------------------------------------------
\* FrameDistributor and FrameReceiver over tokio::sync::broadcast
\* ------------------------------------------------------------------------
\* subscribers of one distributor
NumSubscribers == 2

Subscribers == 1..NumSubscribers

\* capacities FrameDistributor::new is called with
Capacities == { 2, 3 }

\* publish calls in one run
MaxPublishes == 2

\* recv calls that return, per subscriber
MaxOutcomes == 3

\* publish calls in a run with a subscriber that lags
MaxLagPublishes == 5

\* recv calls that return in such a run, over all subscribers
MaxLagOutcomes == 5

\* the bytes of the i-th frame published, as format!("frame {}", i)
FrameBytes(i) == << i >>

\* usize::next_power_of_two, searched upwards from p
RECURSIVE PowerOfTwoFrom(_, _)
PowerOfTwoFrom(p, n) == IF p >= n THEN p ELSE PowerOfTwoFrom(2 * p, n)

\* the largest power of two not above n
prev_power_of_two(n) ==
    IF PowerOfTwoFrom(1, n) = n THEN n ELSE PowerOfTwoFrom(1, n) \div 2

\* broadcast::channel rounds the capacity it is given up to a power of two
next_power_of_two(n) == PowerOfTwoFrom(1, n)

\* a slot without a value
NoVal == [addr |-> 0, bytes |-> << >>]

\* the channel after broadcast::channel(capacity) and after the Receiver it
\* returns was dropped at the end of FrameDistributor::new
channel(capacity) ==
    LET len == next_power_of_two(capacity)
    IN  [buffer |-> [i \in 0..(len - 1) |-> [pos |-> i - len, rem |-> 0, val |-> NoVal]],
         pos |-> 0, rx_cnt |-> 0, closed |-> FALSE]

BufferLen(sh) == Cardinality(DOMAIN sh.buffer)

\* Sender::send(value): an error without receivers, else the value written
\* to the slot of the tail position
send(sh, value) ==
    IF sh.rx_cnt = 0
    THEN [kind |-> "Err", n |-> 0, shared |-> sh]
    ELSE [kind |-> "Ok", n |-> sh.rx_cnt,
          shared |-> [sh EXCEPT !.pos = @ + 1,
                                !.buffer[sh.pos % BufferLen(sh)] =
                                    [pos |-> sh.pos, rem |-> sh.rx_cnt, val |-> value]]]

\* dropping the RecvGuard of the slot at idx: the last reader clears the value
ReleaseSlot(sh, idx) ==
    [sh EXCEPT !.buffer[idx] =
        IF @.rem = 1 THEN [@ EXCEPT !.rem = 0, !.val = NoVal]
        ELSE [@ EXCEPT !.rem = @ - 1]]

\* what recv_ref leaves: its result, the receiver's cursor and the channel
RecvResult(kind, val, seq, n, next, sh) ==
    [kind |-> kind, val |-> val, seq |-> seq, n |-> n, next |-> next, shared |-> sh]

\* Receiver::recv_ref for a receiver whose cursor is next, the guard dropped
\* after the value was cloned; a receiver that lagged is moved to the oldest
\* value the channel still holds
recv_ref(sh, next) ==
    LET len == BufferLen(sh)
        idx == next % len
        slot == sh.buffer[idx]
        oldest == sh.pos - len
        missed == oldest - next
        ok == RecvResult("Ok", slot.val, slot.pos, 0, next + 1, ReleaseSlot(sh, idx))
    IN  IF slot.pos = next THEN ok
        ELSE IF slot.pos + len = next
        THEN RecvResult(IF sh.closed THEN "Closed" ELSE "Empty", NoVal, -1, 0, next, sh)
        ELSE IF missed = 0 THEN ok
        ELSE RecvResult("Lagged", NoVal, -1, missed, oldest, sh)

\* a subscriber that has not subscribed
NoReceiver == [state |-> "none", next |-> 0, since |-> 0, kept_up |-> TRUE,
               frames_received |-> 0, frames_lagged |-> 0, log |-> << >>]

NoPublish == [calls |-> 0, kind |-> "None", n |-> 0, live |-> 0,
              before |-> [frames_sent |-> 0, frames_dropped |-> 0]]

\* the live subscribers
Live == { s \in Subscribers : receivers[s].state = "live" }

\* what the distributor and its subscribers leave alone
nonDistVars == << packetizer, sequence_number, timestamp, packets_sent, bytes_sent,
                 frames_sent, cached_jpeg_info, lastCall, calls, threadVars, opsVars,
                 streamerVars, main, built, lateVars >>

\* FrameDistributor::new(capacity), before any subscribe
InitDistributor ==
    \E capacity \in Capacities :
        /\ distributor = [state |-> "live", capacity |-> capacity, frames_sent |-> 0,
                          frames_dropped |-> 0, latest |-> NoPublish]
        /\ shared = channel(capacity)
        /\ receivers = [s \in Subscribers |-> NoReceiver]
        /\ packetizer = new(U32(0, 1), 1400)
        /\ sequence_number = 0
        /\ timestamp = U32(0, 0)
        /\ packets_sent = 0
        /\ bytes_sent = 0
        /\ frames_sent = 0
        /\ cached_jpeg_info = None
        /\ lastCall = NoCall
        /\ calls = 0
        /\ NoThreads
        /\ NoOps
        /\ NoStreamer
        /\ NoMain
        /\ NoBuilt
        /\ NoLate

\* Arc::new(frame): every publish allocates anew
ArcNew(bytes) == [addr |-> distributor.latest.calls + 1, bytes |-> bytes]

\* a copy of the frame made for one subscriber
arc_copy(value, s) == [value EXCEPT !.addr = @ * (NumSubscribers + 1) + s]

\* the clone of the Arc in the slot that recv returns: the same allocation
arc_clone(value, s) == value

\* every publish reported as delivered
counted_as_ok(kind) == TRUE

\* match &result: Ok(n) counts a frame sent, Err a frame dropped
counted_as_sent(kind) == kind = "Ok"

\* FrameDistributor::publish(frame)
Publish(bytes) ==
    /\ distributor.state = "live"
    /\ \E r \in { send(shared, ArcNew(bytes)) } :
           /\ shared' = r.shared
           /\ distributor' =
                [distributor EXCEPT
                    !.frames_sent = IF counted_as_sent(r.kind) THEN @ + 1 ELSE @,
                    !.frames_dropped = IF counted_as_sent(r.kind) THEN @ ELSE @ + 1,
                    !.latest = [calls |-> @.calls + 1, kind |-> r.kind, n |-> r.n,
                                live |-> Cardinality(Live),
                                before |-> [frames_sent |-> distributor.frames_sent,
                                            frames_dropped |-> distributor.frames_dropped]]]
           /\ receivers' =
                [s \in Subscribers |->
                    IF receivers[s].state = "live"
                    THEN [receivers[s] EXCEPT
                             !.kept_up = @ /\ r.shared.pos - receivers[s].next
                                                <= distributor.capacity]
                    ELSE receivers[s]]
    /\ UNCHANGED nonDistVars

\* a cursor at the oldest value the channel holds
new_receiver_oldest(sh) == IF sh.pos > BufferLen(sh) THEN sh.pos - BufferLen(sh) ELSE 0

\* the cursor of a new Receiver: the tail position
new_receiver(sh) == sh.pos

\* FrameDistributor::subscribe wrapped by FrameReceiver::new; subscribers are
\* numbered in the order they subscribe
Subscribe(s) ==
    /\ distributor.state = "live"
    /\ receivers[s].state = "none"
    /\ \A t \in 1..(s - 1) : receivers[t].state # "none"
    /\ shared' = [shared EXCEPT !.rx_cnt = @ + 1]
    /\ receivers' = [receivers EXCEPT ![s] = [NoReceiver EXCEPT !.state = "live",
                                                             !.next = new_receiver(shared),
                                                             !.since = shared.pos]]
    /\ UNCHANGED << nonDistVars, distributor >>

\* FrameReceiver::recv, from the call to its return: it waits while the
\* channel is empty and open
Recv(s) ==
    /\ receivers[s].state = "live"
    /\ \E r \in { recv_ref(shared, receivers[s].next) } :
           /\ r.kind # "Empty"
           /\ shared' = r.shared
           /\ receivers' =
                [receivers EXCEPT ![s] =
                    [@ EXCEPT !.next = r.next,
                              !.frames_received = IF r.kind = "Ok" THEN @ + 1 ELSE @,
                              !.frames_lagged = IF r.kind = "Lagged" THEN @ + r.n ELSE @,
                              !.log = Append(@, [kind |-> r.kind, n |-> r.n, seq |-> r.seq,
                                                 frame |-> arc_clone(r.val, s),
                                                 published |-> shared.pos,
                                                 closed |-> shared.closed])]]
    /\ UNCHANGED << nonDistVars, distributor >>

\* the slots a dropped Receiver had not read, released as its drop reads them
RECURSIVE Drain(_, _)
Drain(sh, next) ==
    LET r == recv_ref(sh, next)
    IN  IF next >= sh.pos \/ r.kind \in { "Closed", "Empty" } THEN sh
        ELSE Drain(r.shared, r.next)

\* the FrameReceiver is dropped: impl Drop for broadcast::Receiver
DropReceiver(s) ==
    /\ receivers[s].state = "live"
    /\ shared' = Drain([shared EXCEPT !.rx_cnt = @ - 1], receivers[s].next)
    /\ receivers' = [receivers EXCEPT ![s].state = "dropped"]
    /\ UNCHANGED << nonDistVars, distributor >>

\* a channel that stays open
leave_open(sh) == sh

\* impl Drop for broadcast::Sender, the last one: the channel is closed
close_channel(sh) == [sh EXCEPT !.closed = TRUE]

\* the FrameDistributor is dropped, and with it the only Sender
DropDistributor ==
    /\ distributor.state = "live"
    /\ distributor' = [distributor EXCEPT !.state = "dropped"]
    /\ shared' = close_channel(shared)
    /\ UNCHANGED << nonDistVars, receivers >>

\* FrameDistributor::subscriber_count
subscriber_count == shared.rx_cnt

\* publish called at most max times
PublishNext(max) ==
    /\ distributor.latest.calls < max
    /\ \E bytes \in { FrameBytes(distributor.latest.calls) } : Publish(bytes)

\* the recv calls of the subscribers in S that have returned
RECURSIVE RecvReturned(_)
RecvReturned(S) ==
    IF S = { } THEN 0
    ELSE LET s == CHOOSE x \in S : TRUE
         IN  Len(receivers[s].log) + RecvReturned(S \ { s })

\* recv called until it has returned max times
RecvNext(s, max) == Len(receivers[s].log) < max /\ Recv(s)

NextDistributor ==
    \/ PublishNext(MaxPublishes)
    \/ \E s \in Subscribers : Subscribe(s)
    \/ \E s \in Subscribers : RecvNext(s, MaxOutcomes)
    \/ \E s \in Subscribers : DropReceiver(s)
    \/ DropDistributor

SpecDistributor == InitDistributor /\ [][NextDistributor]_vars

\* subscribers that are there before the first frame and stay, some of them
\* receiving slower than the publisher publishes
NextLag ==
    \/ PublishNext(MaxLagPublishes)
    \/ \E s \in Subscribers : distributor.latest.calls = 0 /\ Subscribe(s)
    \/ \E s \in Subscribers : RecvReturned(Subscribers) < MaxLagOutcomes /\ Recv(s)

SpecLag == InitDistributor /\ [][NextLag]_vars

\* C23: a publish with live subscribers returns Ok(n), n the number of live
\* subscribers, and adds 1 to frames_sent only; a publish without one returns
\* an error and adds 1 to frames_dropped only; the two counters add up to the
\* number of publish calls.
PublishCountsOnce ==
    LET latest == distributor.latest
        sent == distributor.frames_sent - latest.before.frames_sent
        dropped == distributor.frames_dropped - latest.before.frames_dropped
    IN  /\ distributor.frames_sent + distributor.frames_dropped = latest.calls
        /\ latest.calls > 0 =>
               IF latest.live > 0
               THEN latest.kind = "Ok" /\ latest.n = latest.live /\ sent = 1 /\ dropped = 0
               ELSE latest.kind = "Err" /\ sent = 0 /\ dropped = 1

\* one frame was published to nobody and the next to two subscribers
PublishWitness ==
    /\ distributor.frames_dropped = 1
    /\ distributor.frames_sent = 1
    /\ distributor.latest.kind = "Ok"
    /\ distributor.latest.n = 2

\* C24: a subscriber that was never more than the configured capacity behind
\* the publisher has received, without a Lagged in between, exactly the frames
\* from the one published first after it subscribed up to its cursor, each
\* once and in publish order, whatever the other subscribers did.
KeptUpReceivesAll ==
    \A s \in Live :
        receivers[s].kept_up =>
            /\ receivers[s].next = receivers[s].since + Len(receivers[s].log)
            /\ \A i \in 1..Len(receivers[s].log) :
                   /\ receivers[s].log[i].kind = "Ok"
                   /\ receivers[s].log[i].seq = receivers[s].since + i - 1
                   /\ receivers[s].log[i].frame.bytes = FrameBytes(receivers[s].since + i - 1)

\* a subscriber has received three frames in step with the publisher while
\* another one lagged
KeptUpWitness ==
    \E s, t \in Live :
        /\ receivers[s].kept_up
        /\ receivers[s].frames_received = 3
        /\ receivers[t].frames_lagged > 0

\* the frame a subscriber holds: the one its latest recv returned
Holds(s) ==
    /\ receivers[s].state = "live"
    /\ receivers[s].log # << >>
    /\ receivers[s].log[Len(receivers[s].log)].kind = "Ok"

Held(s) == receivers[s].log[Len(receivers[s].log)]

\* Arc::strong_count of the allocation at addr: the slots and the subscribers
\* that hold it
StrongCount(addr) ==
    Cardinality({ idx \in DOMAIN shared.buffer : shared.buffer[idx].val.addr = addr })
      + Cardinality({ s \in Subscribers : Holds(s) /\ Held(s).frame.addr = addr })

\* C25: two subscribers that hold what recv returned for the same publish
\* hold the same allocation, whose reference count is at least 2, and see the
\* bytes that were published.
SameFrameShared ==
    \A s, t \in Subscribers :
        (s # t /\ Holds(s) /\ Holds(t) /\ Held(s).seq = Held(t).seq) =>
            /\ Held(s).frame.addr = Held(t).frame.addr
            /\ Held(s).frame.bytes = Held(t).frame.bytes
            /\ StrongCount(Held(s).frame.addr) >= 2

\* both subscribers hold the frame of the second publish
SharedWitness ==
    /\ Holds(1)
    /\ Holds(2)
    /\ Held(1).seq = Held(2).seq
    /\ Held(1).frame.bytes = FrameBytes(1)

\* C26: a subscriber that subscribed before the first publish and whose
\* first recv comes after K + N publishes, K the capacity and N >= 1, gets
\* Lagged(n) with n >= N from that recv, and its frames_lagged grows by n.
FirstRecvLagged ==
    \A s \in Subscribers :
        ( /\ receivers[s].since = 0
          /\ receivers[s].log # << >>
          /\ receivers[s].log[1].published > distributor.capacity ) =>
            /\ receivers[s].log[1].kind = "Lagged"
            /\ receivers[s].log[1].n >= receivers[s].log[1].published - distributor.capacity
            /\ receivers[s].frames_lagged >= receivers[s].log[1].n

\* C27: the frame that recv returns right after a Lagged is one of the
\* last K frames published, K the capacity, and the frames after it follow in
\* publish order.
LaggedSnapsToNewest ==
    \A s \in Subscribers :
        \A i \in 1..(Len(receivers[s].log) - 1) :
            LET lag == receivers[s].log[i]
                got == receivers[s].log[i + 1]
            IN  (lag.kind = "Lagged" /\ got.kind = "Ok") =>
                    /\ got.seq >= got.published - distributor.capacity
                    /\ \A j \in (i + 2)..Len(receivers[s].log) :
                           receivers[s].log[j].kind = "Ok" =>
                               receivers[s].log[j].seq > receivers[s].log[j - 1].seq

\* publish calls in a run where subscribers join late and leave
MaxJoinPublishes == 3

\* recv calls that return in such a run, over all subscribers
MaxJoinOutcomes == 3

\* subscribers that come and go while frames are published
NextJoin ==
    \/ PublishNext(MaxJoinPublishes)
    \/ \E s \in Subscribers : Subscribe(s)
    \/ \E s \in Subscribers : RecvReturned(Subscribers) < MaxJoinOutcomes /\ Recv(s)
    \/ \E s \in Subscribers : DropReceiver(s)

SpecJoin == InitDistributor /\ [][NextJoin]_vars

\* the subscribers that have subscribed, dropped or not
Subscribed == { s \in Subscribers : receivers[s].state # "none" }

\* the index of the first frame in what recv returned to s, 0 without one
FirstFrame(s) ==
    LET oks == { i \in 1..Len(receivers[s].log) : receivers[s].log[i].kind = "Ok" }
    IN  IF oks = { } THEN 0 ELSE CHOOSE i \in oks : \A j \in oks : i <= j

\* the frames that the Lagged results before the i-th result reported as missed
RECURSIVE LaggedBefore(_, _)
LaggedBefore(s, i) ==
    IF i <= 1 THEN 0
    ELSE LaggedBefore(s, i - 1)
           + (IF receivers[s].log[i - 1].kind = "Lagged" THEN receivers[s].log[i - 1].n ELSE 0)

\* C28 as stated: no subscriber receives a frame published before it
\* subscribed, the first frame it receives is the first one published after it
\* subscribed, and subscriber_count is the number of subscribers that have
\* subscribed and not been dropped.
FirstFrameIsFirstPublished ==
    /\ subscriber_count = Cardinality(Live)
    /\ \A s \in Subscribed :
           /\ \A i \in 1..Len(receivers[s].log) :
                  receivers[s].log[i].kind = "Ok" => receivers[s].log[i].seq >= receivers[s].since
           /\ FirstFrame(s) # 0 => receivers[s].log[FirstFrame(s)].seq = receivers[s].since

\* C28 amended: the first frame a subscriber receives is the first one
\* published after it subscribed that no Lagged before it reported as missed;
\* the rest as stated.
FirstFrameAfterSubscribe ==
    /\ subscriber_count = Cardinality(Live)
    /\ \A s \in Subscribed :
           /\ \A i \in 1..Len(receivers[s].log) :
                  receivers[s].log[i].kind = "Ok" => receivers[s].log[i].seq >= receivers[s].since
           /\ FirstFrame(s) # 0 =>
                  receivers[s].log[FirstFrame(s)].seq
                      = receivers[s].since + LaggedBefore(s, FirstFrame(s))

\* a subscriber that joined after a publish has its first frame, and another
\* one has been dropped
JoinWitness ==
    \E s, t \in Subscribers :
        /\ receivers[s].since > 0
        /\ FirstFrame(s) = 1
        /\ receivers[t].state = "dropped"
        /\ subscriber_count = 1

\* publish calls before the distributor is dropped
MaxClosePublishes == 2

\* recv calls that return while the channel is open, over all subscribers
MaxOpenOutcomes == 2

\* recv calls of one subscriber that return Closed
MaxClosedReturns == 2

\* the recv calls of s that returned Closed
ClosedReturns(s) ==
    Cardinality({ i \in 1..Len(receivers[s].log) : receivers[s].log[i].kind = "Closed" })

\* a subscriber that calls recv again and again, also after Closed
RecvLoop(s) ==
    /\ IF shared.closed THEN ClosedReturns(s) < MaxClosedReturns
                        ELSE RecvReturned(Subscribers) < MaxOpenOutcomes
    /\ Recv(s)

NextClose ==
    \/ PublishNext(MaxClosePublishes)
    \/ \E s \in Subscribers : Subscribe(s)
    \/ \E s \in Subscribers : RecvLoop(s)
    \/ DropDistributor

\* a recv that can return does return: the channel wakes the waiting receiver
SpecClose ==
    /\ InitDistributor
    /\ [][NextClose]_vars
    /\ \A s \in Subscribers : WF_vars(RecvLoop(s))

\* the latest recv of s returned Closed
ClosedLast(s) ==
    /\ receivers[s].log # << >>
    /\ receivers[s].log[Len(receivers[s].log)].kind = "Closed"

\* C29: once the distributor is dropped, every live subscriber's recv
\* eventually returns Closed; before Closed it has returned every frame the
\* channel retained for the subscriber, in publish order, and after Closed it
\* returns no frame.
ClosedAfterDrop ==
    /\ (distributor.state = "dropped") ~> (\A s \in Live : ClosedLast(s))
    /\ [](\A s \in Subscribed :
            \A i \in 1..Len(receivers[s].log) :
                LET got == receivers[s].log[i]
                IN  /\ got.kind = "Closed" =>
                           /\ got.closed
                           /\ receivers[s].next = shared.pos
                           /\ \A j \in (i + 1)..Len(receivers[s].log) :
                                  receivers[s].log[j].kind = "Closed"
                    /\ got.kind = "Ok" =>
                           \A j \in (i + 1)..Len(receivers[s].log) :
                               receivers[s].log[j].kind = "Ok" =>
                                   receivers[s].log[j].seq > got.seq)

\* a subscriber got a retained frame after the distributor was dropped, then
\* Closed, and Closed again from one more recv
ClosedWitness ==
    \E s \in Live :
        /\ Len(receivers[s].log) >= 3
        /\ ClosedReturns(s) = 2
        /\ \E i \in 1..Len(receivers[s].log) :
               receivers[s].log[i].kind = "Ok" /\ receivers[s].log[i].closed

\* CameraConfig::default_camera1, the fields that validate_camera and the
\* streaming objects read
DefaultCamera == [enabled |-> FALSE, width |-> 640, height |-> 480, fps |-> 30,
                  quality |-> 85, dest_port |-> 5000]

\* camera settings: the default and, one field at a time, values on and
\* around the limits of validate_camera
CameraShapes ==
    { DefaultCamera }
      \cup { [DefaultCamera EXCEPT !.width = v] : v \in { 0, 4, 8 } }
      \cup { [DefaultCamera EXCEPT !.height = v] : v \in { 0, 4, 8 } }
      \cup { [DefaultCamera EXCEPT !.fps = v] : v \in { 0, 1, 120, 121 } }
      \cup { [DefaultCamera EXCEPT !.quality = v] : v \in { 0, 1, 100, 101 } }
      \cup { [DefaultCamera EXCEPT !.dest_port = v] : v \in { 0, 1 } }

\* the camera sections a configuration file can hold
Cameras == { [c EXCEPT !.enabled = e] : c \in CameraShapes, e \in BOOLEAN }

\* the mtu values tried
MtuValues == { 0, 20, 499, 500, 1400, 9000, 9001 }

\* the dscp values tried, a u8
DscpValues == { 0, 63, 64, 255 }

\* Config::validate_camera, all its checks: "Ok" or "Err" for
\* ConfigError::Invalid
validate_camera_config(cam) ==
    IF ~validate_camera(cam.width, cam.height) THEN "Err"
    ELSE IF cam.fps = 0 \/ cam.fps > 120 THEN "Err"
    ELSE IF cam.quality = 0 \/ cam.quality > 100 THEN "Err"
    ELSE IF cam.dest_port = 0 THEN "Err"
    ELSE "Ok"

\* Config::validate
validate(cfg) ==
    IF cfg.mtu < 500 \/ cfg.mtu > 9000 THEN "Err"
    ELSE IF cfg.dscp > 63 THEN "Err"
    ELSE IF cfg.camera1.enabled /\ validate_camera_config(cfg.camera1) = "Err" THEN "Err"
    ELSE IF cfg.camera2.enabled /\ validate_camera_config(cfg.camera2) = "Err" THEN "Err"
    ELSE "Ok"

\* what the construction of configurations and streaming objects leaves alone
nonBuiltVars == << packetizer, sequence_number, timestamp, packets_sent, bytes_sent,
                  frames_sent, cached_jpeg_info, lastCall, calls, threadVars, opsVars,
                  streamerVars, main, distVars, lateVars >>

\* before anything is constructed
InitConfig ==
    /\ NoBuilt
    /\ NoLate
    /\ packetizer = new(U32(0, 1), 1400)
    /\ sequence_number = 0
    /\ timestamp = U32(0, 0)
    /\ packets_sent = 0
    /\ bytes_sent = 0
    /\ frames_sent = 0
    /\ cached_jpeg_info = None
    /\ lastCall = NoCall
    /\ calls = 0
    /\ NoThreads
    /\ NoOps
    /\ NoStreamer
    /\ NoMain
    /\ NoDist

\* Config::from_str and Config::load on a file that parses
ConfigFromStr(mtu, dscp, camera1, camera2) ==
    /\ \E cfg \in { [mtu |-> mtu, dscp |-> dscp, camera1 |-> camera1, camera2 |-> camera2] } :
           built' = [what |-> "Config", config |-> cfg, result |-> validate(cfg)]
    /\ UNCHANGED nonBuiltVars

\* Config::default
ConfigDefault ==
    /\ built' = [what |-> "Config",
                 config |-> [mtu |-> 1400, dscp |-> 0, camera1 |-> DefaultCamera,
                             camera2 |-> [DefaultCamera EXCEPT !.dest_port = 5002]],
                 result |-> "Ok"]
    /\ UNCHANGED nonBuiltVars

\* Capture::new(config); gst::init succeeds or not
CaptureNew(cam, init_ok) ==
    /\ built' = [what |-> "Capture",
                 config |-> [width |-> cam.width, height |-> cam.height, fps |-> cam.fps,
                             quality |-> cam.quality],
                 result |-> IF init_ok THEN "Ok" ELSE "Err"]
    /\ UNCHANGED nonBuiltVars

\* Streamer::new(config), with the RtpPacketizer it creates
StreamerNew(cam, mtu, dscp) ==
    /\ built' = [what |-> "Streamer",
                 config |-> [dest_port |-> cam.dest_port, width |-> cam.width,
                             height |-> cam.height, fps |-> cam.fps, mtu |-> mtu,
                             dscp |-> dscp, packetizer |-> new(U32(0, 1), mtu)],
                 result |-> "Ok"]
    /\ UNCHANGED nonBuiltVars

\* RtpPacketizer::new(ssrc, mtu)
PacketizerNew(mtu) ==
    /\ built' = [what |-> "Packetizer", config |-> new(U32(0, 1), mtu), result |-> "Ok"]
    /\ UNCHANGED nonBuiltVars

\* a run constructs one object
NextConfig ==
    \/ /\ NoBuilt
       /\ \E mtu \in MtuValues, dscp \in DscpValues, camera1, camera2 \in Cameras :
              ConfigFromStr(mtu, dscp, camera1, camera2)
    \/ NoBuilt /\ ConfigDefault
    \/ NoBuilt /\ \E cam \in CameraShapes, init_ok \in BOOLEAN : CaptureNew(cam, init_ok)
    \/ /\ NoBuilt
       /\ \E cam \in CameraShapes, mtu \in MtuValues, dscp \in DscpValues :
              StreamerNew(cam, mtu, dscp)
    \/ NoBuilt /\ \E mtu \in MtuValues : PacketizerNew(mtu)

SpecConfig == InitConfig /\ [][NextConfig]_vars

\* the domains of the configuration values
MtuInDomain(mtu) == mtu >= 500 /\ mtu <= 9000

FrameInDomain(c) ==
    /\ c.width # 0 /\ c.width % 8 = 0
    /\ c.height # 0 /\ c.height % 8 = 0
    /\ c.fps >= 1 /\ c.fps <= 120

CameraInDomain(c) ==
    FrameInDomain(c) /\ c.quality >= 1 /\ c.quality <= 100 /\ c.dest_port # 0

\* C30: nothing is constructed from a value outside its domain: a
\* configuration that loads has MTU and DSCP in their domains and every
\* enabled camera in its domain, and a capture, a sender or a packetizer that
\* was constructed has width, height, fps, quality, destination port, MTU and
\* DSCP, as far as it has them, in their domains.
OutOfDomainRejected ==
    built.result = "Ok" =>
        /\ built.what = "Config" =>
               /\ MtuInDomain(built.config.mtu)
               /\ built.config.dscp <= 63
               /\ built.config.camera1.enabled => CameraInDomain(built.config.camera1)
               /\ built.config.camera2.enabled => CameraInDomain(built.config.camera2)
        /\ built.what = "Capture" =>
               /\ FrameInDomain(built.config)
               /\ built.config.quality >= 1 /\ built.config.quality <= 100
        /\ built.what = "Streamer" =>
               /\ FrameInDomain(built.config)
               /\ built.config.dest_port # 0
               /\ MtuInDomain(built.config.mtu)
               /\ MtuInDomain(built.config.packetizer.mtu)
               /\ built.config.dscp <= 63
        /\ built.what = "Packetizer" => MtuInDomain(built.config.mtu)

\* ------------------------------------------------------------------------
\* parse_jpeg_for_rtp on its own
\* ------------------------------------------------------------------------
\* longest scan body of the frames generated for the parser
MaxScanBody == 3

\* a baseline SOF0 segment of a 16x8 picture with nc components, the first of
\* them (Y) with the sampling byte samp
Sof0Components(nc, samp) ==
    << 255, SOF0, 0, 17, 8, 0, 8, 0, 16, nc, 1, samp, 0, 2, 17, 1, 3, 17, 1 >>

\* sampling bytes: 2x2, 2x1, 1x1, 1x2, 4x1, 2x4
SampValues == { 34, 33, 17, 18, 65, 36 }

\* a frame with an SOF0 segment before its scan
Sof0Frame(nc, samp) == Frame(Sof0Components(nc, samp) \o SosSeg \o ScanBytes(1))

Sof0Frames == { Sof0Frame(nc, samp) : nc \in { 1, 3 }, samp \in SampValues }

\* an SOF0 segment cut right after the first component's identifier
Sof0CutFrame == << 255, SOI, 255, SOF0, 0, 17, 8, 0, 8, 0, 16, 3, 1 >>

\* the bytes a scan body is made of: a data byte, FF and the EOI code
ScanAlphabet == { 17, 255, EOI }

ScanBodies == UNION { [1..n -> ScanAlphabet] : n \in 0..MaxScanBody }

\* an SOS header with the header bytes h after its length field
SosHeader(h) == << 255, SOS >> \o put_u16(Len(h) + 2) \o h

\* frames whose first segment is the SOS
ScanFrames ==
    { Frame(SosHeader(h) \o body) : h \in { << >>, << 1, 2 >> }, body \in ScanBodies }

\* the length fields tried in a segment
LengthValues == { 0, 1, 2, 99 }

\* frames whose first segment has a length field of 0, 1, 2 or past the end
LengthFrames ==
    { Frame(<< 255, marker >> \o put_u16(length) \o rest) :
        marker \in { DQT, SOF0, SOS, 224 }, length \in LengthValues,
        rest \in { << >>, ScanBytes(2), SosSeg \o ScanBytes(1) } }

ParseInputs == Sof0Frames \cup { Sof0CutFrame } \cup ScanFrames \cup LengthFrames
               \cup RawInputs

\* what the parser and its callers leave alone
nonParseVars == << packetizer, sequence_number, timestamp, packets_sent, bytes_sent,
                  frames_sent, cached_jpeg_info, lastCall, calls, threadVars, opsVars,
                  streamerVars, main, built, distVars, manager >>

\* a byte sequence is given
InitParse ==
    /\ \E data \in ParseInputs : parsed = [pc |-> "given", data |-> data]
    /\ NoManager
    /\ NoBuilt
    /\ NoDist
    /\ NoMain
    /\ NoStreamer
    /\ NoOps
    /\ NoThreads
    /\ packetizer = new(U32(0, 1), 1400)
    /\ sequence_number = 0
    /\ timestamp = U32(0, 0)
    /\ packets_sent = 0
    /\ bytes_sent = 0
    /\ frames_sent = 0
    /\ cached_jpeg_info = None
    /\ lastCall = NoCall
    /\ calls = 0

\* parse_jpeg_for_rtp(data), and packetize_jpeg(data, 640, 480, 0) on a
\* fresh packetizer
ParseJpeg ==
    /\ parsed.pc = "given"
    /\ parsed' = [pc |-> "done",
                  data |-> parsed.data,
                  result |-> parse_jpeg_for_rtp(parsed.data),
                  packetized |-> packetize_jpeg(packetizer, Fresh, parsed.data,
                                                640, 480, U32(0, 0)).kind]
    /\ UNCHANGED nonParseVars

NextParse == ParseJpeg

SpecParse == InitParse /\ [][NextParse]_vars

\* C31: a frame whose SOF0 segment declares 3 components parses to
\* jpeg_type 0 when Y is sampled 2x2, to jpeg_type 1 when Y is sampled 2x1, and
\* fails with Unsupported for any other sampling.
SamplingSetsType ==
    \A samp \in SampValues :
        (parsed.pc = "done" /\ parsed.data = Sof0Frame(3, samp)) =>
            IF samp = 34
            THEN parsed.result.kind = "Ok" /\ parsed.result.info.jpeg_type = 0
            ELSE IF samp = 33
            THEN parsed.result.kind = "Ok" /\ parsed.result.info.jpeg_type = 1
            ELSE parsed.result.kind = "Err" /\ parsed.result.err = "Unsupported"

\* the position of the last FF D9 in data
LastEoi(data) ==
    LET at == { i \in 0..(Len(data) - 2) : At(data, i) = 255 /\ At(data, i + 1) = EOI }
    IN  CHOOSE i \in at : \A j \in at : j <= i

\* C32: for a frame whose first segment is the SOS, the scan_data returned
\* is the bytes from the end of the SOS header up to the last FF D9 of the
\* input.
ScanEndsAtLastEoi ==
    (parsed.pc = "done" /\ parsed.data \in ScanFrames) =>
        /\ parsed.result.kind = "Ok"
        /\ parsed.result.info.scan_data =
              Slice(parsed.data,
                    4 + from_be_bytes(At(parsed.data, 4), At(parsed.data, 5)),
                    LastEoi(parsed.data))

\* C33: parse_jpeg_for_rtp and packetize_jpeg return a result or a typed
\* error for every input.
NeverPanics ==
    parsed.pc = "done" =>
        /\ parsed.result.kind \in { "Ok", "Err" }
        /\ parsed.packetized \in { "Ok", "Err" }

\* C34: a packetize_jpeg call that returns Ok returns at least one packet,
\* one of them with the marker bit set, also for a frame without scan data.
OkCarriesMarker ==
    Returned =>
        /\ Len(Packets) >= 1
        /\ \E i \in 1..Len(Packets) : MarkerBit(Packets[i]) = 1

\* C35: with calls running at the same time, no sequence number is given to
\* packets of two calls, and once every call has returned
\* get_sequence_number() is the number of packets returned, modulo 2^16.
ConcurrentSequenceDense ==
    /\ \A t, u \in Threads :
           t # u =>
               \A i \in 1..Len(thread[t].packets), j \in 1..Len(thread[u].packets) :
                   SeqOf(thread[t].packets[i]) # SeqOf(thread[u].packets[j])
    /\ AllReturned => sequence_number = returned.packets % 65536

\* the packets of the frame of thread t when the headers are written from what
\* was parsed from that frame, numbered from seq_num
OwnPackets(t, seq_num) ==
    LET x == extract_jpeg_payload(thread[t].jpeg, None)
    IN  FragmentLoop(packetizer, x.cached, x.payload, ThreadTs(t), 640, 480,
                     0, 0, seq_num, << >>).packets

\* C36: the JPEG type, the Q value and the quantization tables in the
\* packets of a frame are those parsed from that frame, whatever other calls
\* run at the same time.
HeadersFromOwnFrame ==
    \A t \in Threads :
        (thread[t].pc \notin { "load", "build" } /\ thread[t].packets # << >>) =>
            thread[t].packets = OwnPackets(t, SeqOf(thread[t].packets[1]))

\* C37: a packetize_jpeg call that returns an error leaves the sequence
\* number, the timestamp, packets_sent, bytes_sent and frames_sent as they were.
ErrorLeavesCounters ==
    [][(calls' = calls + 1 /\ lastCall'.kind = "Err") =>
           /\ sequence_number' = sequence_number
           /\ timestamp' = timestamp
           /\ packets_sent' = packets_sent
           /\ bytes_sent' = bytes_sent
           /\ frames_sent' = frames_sent]_vars

\* a call failed on a packetizer that had packetized frames before
ErrorWitness ==
    /\ lastCall.kind = "Err"
    /\ frames_sent > 0
    /\ sequence_number > 0

\* ------------------------------------------------------------------------
\* The capture callback, Capture::stop and the frame loop
\* ------------------------------------------------------------------------
\* Capture::stop up to the store of the flag; the pipeline still plays and
\* its streaming thread may call new_sample before the state change
StopFlag ==
    /\ capture.pc = "started"
    /\ capture.is_running
    /\ capture' = [capture EXCEPT !.is_running = FALSE, !.pc = "stopping"]
    /\ UNCHANGED << packetizer, timestamp, packetizerState, callerVars, streamer,
                    is_running, stats, frame_queue, frame_rx, task, socket,
                    handled, lastSend, forwarder >>

\* Capture::stop from pipeline.take(): set_state(Null) and the `?` on its
\* result; the Capture keeps app_sink and frame_tx
StopPipeline(ok) ==
    /\ capture.pc = "stopping"
    /\ capture' = [capture EXCEPT !.pc = "stopped",
                                  !.pipeline = IF ok THEN "Null" ELSE @]
    /\ UNCHANGED << packetizer, timestamp, packetizerState, callerVars, streamer,
                    is_running, stats, frame_queue, frame_rx, task, socket,
                    handled, lastSend, forwarder >>

\* a camera whose frames the frame loop takes slower than they arrive, stopped
\* at some time
NextSampling ==
    \/ Start
    \/ NewSample(EmptyScanFrame)
    \/ ForwardRecv
    \/ ForwardSend
    \/ TaskRecv
    \/ StopFlag
    \/ \E ok \in BOOLEAN : StopPipeline(ok)

SpecSampling == InitStreamer /\ [][NextSampling]_vars

\* the callback ran
SampleStep == capture'.samples = capture.samples + 1

MaxDropSamples == 2

\* drop(capture), the Receiver being owned by the task that forwards the frames
DropWhileReceiving(ok) ==
    /\ capture.pc \in { "started", "stopped" }
    /\ forwarder.pc \in { "recv", "send" }
    /\ capture' = drop_capture(capture, ok)
    /\ UNCHANGED << packetizer, timestamp, packetizerState, callerVars, streamer,
                    is_running, stats, frame_queue, frame_rx, task, socket,
                    handled, lastSend, forwarder >>

\* frame_rx.recv().await returns None, the queue being empty and every Sender
\* dropped: the `while let` loop ends
ForwardEnd ==
    /\ forwarder.pc = "recv"
    /\ capture.queue = << >>
    /\ capture.senders = 0
    /\ forwarder' = [pc |-> "done", id |-> 0, jpeg |-> << >>]
    /\ UNCHANGED << packetizer, timestamp, packetizerState, callerVars, streamer,
                    is_running, stats, frame_queue, frame_rx, task, socket,
                    handled, lastSend, capture >>

NextDrop ==
    \/ capture.samples < MaxDropSamples /\ NewSample(GoodFrame)
    \/ ForwardRecv
    \/ ForwardSend
    \/ ForwardEnd
    \/ TaskRecv
    \/ \E ok \in BOOLEAN : TaskSendTo(ok)
    \/ StopFlag
    \/ \E ok \in BOOLEAN : StopPipeline(ok)
    \/ \E ok \in BOOLEAN : DropWhileReceiving(ok)

\* the stream of the test: capture and streamer started, frames forwarded
InitDrop == InitStreamer /\ streamer = "started"

\* the runtime runs the forwarding task and the sender task on
SpecDrop ==
    /\ InitDrop
    /\ [][NextDrop]_vars
    /\ WF_vars(ForwardRecv)
    /\ WF_vars(ForwardSend)
    /\ WF_vars(ForwardEnd)
    /\ WF_vars(TaskRecv)
    /\ WF_vars(\E ok \in BOOLEAN : TaskSendTo(ok))

\* C39: once the Capture is dropped its flag is false, its pipeline is in the
\* Null state and the frame channel is closed, and the loop on the Receiver
\* has got every queued frame when it ends.
DropClosesChannel ==
    capture.pc = "dropped" =>
        /\ ~capture.is_running
        /\ capture.pipeline = "Null"
        /\ capture.senders = 0
        /\ forwarder.pc = "done" => capture.received = capture.sent

\* the same with the pipeline having reached Null, and the loop then ends
DropClosesChannelOnNull ==
    /\ [](capture.pc = "dropped" =>
              /\ ~capture.is_running
              /\ capture.pipeline = "Null" => capture.senders = 0
              /\ forwarder.pc = "done" =>
                     capture.received = capture.sent /\ capture.senders = 0)
    /\ (capture.pc = "dropped" /\ capture.pipeline = "Null") ~> (forwarder.pc = "done")

\* ------------------------------------------------------------------------
\* SessionManager::handle_connection
\* ------------------------------------------------------------------------
\* connections that reach one SessionManager in a run
NumConnections == 3

Connections == 1..NumConnections

\* webrtc_cfg.max_clients of the managers explored
MaxClientsValues == { 1, 2 }

\* what handle_connection leaves alone
nonManagerVars == << packetizer, sequence_number, timestamp, packets_sent, bytes_sent,
                    frames_sent, cached_jpeg_info, lastCall, calls, threadVars, opsVars,
                    streamerVars, main, built, distVars, parsed >>

\* SessionManager::new: both counters 0, no handle_connection call made
InitManager ==
    /\ \E max_clients \in MaxClientsValues :
           manager = [state |-> "created",
                      max_clients |-> max_clients,
                      active_sessions |-> 0,
                      session_counter |-> 0,
                      conn |-> [c \in Connections |-> [pc |-> "none", result |-> "None"]]]
    /\ NoParsed
    /\ NoBuilt
    /\ NoDist
    /\ NoMain
    /\ NoStreamer
    /\ NoOps
    /\ NoThreads
    /\ packetizer = new(U32(0, 1), 1400)
    /\ sequence_number = 0
    /\ timestamp = U32(0, 0)
    /\ packets_sent = 0
    /\ bytes_sent = 0
    /\ frames_sent = 0
    /\ cached_jpeg_info = None
    /\ lastCall = NoCall
    /\ calls = 0

\* u32::saturating_sub(1)
saturating_sub(n) == IF n = 0 THEN 0 ELSE n - 1

\* handle_connection up to its first block: the session id is drawn (the u32
\* counter takes 2^32 calls to wrap), and under the lock the call is rejected
\* at max_clients or counted
Admit(c) ==
    /\ manager.state = "created"
    /\ manager.conn[c].pc = "none"
    /\ manager' =
         IF manager.active_sessions >= manager.max_clients
         THEN [manager EXCEPT !.session_counter = @ + 1,
                              !.conn[c] = [pc |-> "returned", result |-> "Rejected"]]
         ELSE [manager EXCEPT !.session_counter = @ + 1,
                              !.active_sessions = @ + 1,
                              !.conn[c] = [pc |-> "admitted", result |-> "None"]]
    /\ UNCHANGED nonManagerVars

\* WebRTCSession::new(..)?: an error returns from handle_connection at once;
\* else session.run(stream) is awaited
CreateSession(c, ok) ==
    /\ manager.conn[c].pc = "admitted"
    /\ manager' =
         IF ok
         THEN [manager EXCEPT !.conn[c] = [pc |-> "running", result |-> "None"]]
         ELSE [manager EXCEPT !.conn[c] = [pc |-> "returned", result |-> "Err"]]
    /\ UNCHANGED nonManagerVars

\* session.run returns Ok or Err: the count goes down by 1 under the lock and
\* handle_connection returns Ok(())
SessionEnds(c, ok) ==
    /\ manager.conn[c].pc = "running"
    /\ manager' = [manager EXCEPT !.active_sessions = saturating_sub(@),
                                  !.conn[c] = [pc |-> "returned", result |-> "Ok"]]
    /\ UNCHANGED nonManagerVars

NextManager ==
    \/ \E c \in Connections : Admit(c)
    \/ \E c \in Connections, ok \in BOOLEAN : CreateSession(c, ok)
    \/ \E c \in Connections, ok \in BOOLEAN : SessionEnds(c, ok)

SpecManager == InitManager /\ [][NextManager]_vars

\* the handle_connection calls that were admitted and have not returned
OpenCalls == { c \in Connections : manager.conn[c].pc \in { "admitted", "running" } }

\* C40: active_sessions is the number of admitted handle_connection calls that
\* have not returned, and never exceeds max_clients.
ActiveCountsOpenCalls ==
    /\ manager.active_sessions = Cardinality(OpenCalls)
    /\ manager.active_sessions <= manager.max_clients

====
